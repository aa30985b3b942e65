----------------------------- MODULE ChainProofs -----------------------------
(***************************************************************************)
(* Theorems about DescriptorChain, for pages, buffers and chains of every  *)
(* size.                                                                   *)
(***************************************************************************)
EXTENDS DescriptorChain, TLAPS

InPage == ring.offset % Page

(* Where block i begins: the first one ends with the page that the buffer  *)
(* begins in, the others are pages.                                        *)
From(i) == IF i = 0 THEN 0 ELSE i * Page - InPage

(* What is known of a block that the board may read, and that leads to     *)
(* what was meant to be descriptor n.                                      *)
Leads(i, n) ==
  /\ chain[i].from = From(i) /\ chain[i].bytes > 0
  /\ ((ring.offset + From(i)) % Page) + chain[i].bytes <= Page
  /\ chain[i].next = Address(n) - 3 * Size

TypeOK ==
  /\ ring \in Rings
  /\ chain \in [Index -> [from: Int, bytes: Int, next: Int]]
  /\ at \in Index \cup {Unset} /\ set \in Nat

(* While the chain is built: the blocks before `at` are whole, those from  *)
(* there on lead where adcCheckDescriptorBlocks made them lead.            *)
Building ==
  /\ set = From(at) /\ set < ring.size
  /\ \A i \in 0 .. at - 1 : Leads(i, i + 1) /\ chain[i].bytes = From(i + 1) - From(i)
  /\ \A i \in Index : i >= at /\ i + 1 \in Index => chain[i].next = Pointer(i + 1)

Built ==
  /\ \A i \in 0 .. at : Leads(i, Meant(i))
  /\ \A i \in 0 .. at - 1 : chain[i].bytes = From(i + 1) - From(i)
  /\ From(at) + chain[at].bytes = ring.size
  /\ ring.kind = "out" => /\ chain[at + 1].from = ring.pad
                          /\ chain[at + 1].next = Address(at + 1)
  /\ reads = Address(0) - 3 * Size

IInv ==
  /\ TypeOK
  /\ at = Unset => set = 0 /\ reads = Unset
  /\ at # Unset /\ reads = Unset => Building
  /\ reads # Unset => at # Unset /\ Built

(* Page arithmetic.                                                        *)
LEMMA ModRange ==
  ASSUME NEW a \in Int, NEW b \in Nat \ {0}
  PROVE  a % b \in 0 .. (b - 1) /\ a = b * (a \div b) + (a % b) /\ a \div b \in Int
OBVIOUS

LEMMA NoMultipleBetween ==
  ASSUME NEW k \in Int, NEW b \in Nat \ {0}, -b < k * b, k * b < b
  PROVE  k = 0
<1>1. CASE k >= 1
  <2>1. k * b = b + (k - 1) * b /\ (k - 1) * b >= 0
    BY <1>1
  <2> QED BY <2>1
<1>2. CASE k <= -1
  <2>1. k * b = (k + 1) * b - b /\ (k + 1) * b <= 0
    BY <1>2
  <2> QED BY <2>1
<1> QED BY <1>1, <1>2

LEMMA ModUnique ==
  ASSUME NEW a \in Int, NEW b \in Nat \ {0}, NEW q \in Int, NEW r \in 0 .. (b - 1),
         a = q * b + r
  PROVE  a % b = r
<1> DEFINE k == a \div b - q
<1>1. a % b \in 0 .. (b - 1) /\ a = b * (a \div b) + (a % b) /\ a \div b \in Int
  BY ModRange
<1>2. k \in Int /\ k * b = r - (a % b)
  BY <1>1
<1>3. k = 0
  <2> HIDE DEF k
  <2> QED BY <1>1, <1>2, NoMultipleBetween
<1> QED BY <1>1, <1>2, <1>3

(* What a block is, whatever its number.                                   *)
LEMMA RingType ==
  ASSUME Sane, ring \in Rings
  PROVE  /\ Page \in Nat \ {0} /\ ring.offset \in Nat /\ ring.size \in Nat \ {0}
         /\ InPage \in 0 .. (Page - 1)
<1>1. Page \in Nat \ {0} /\ ring.offset \in Nat /\ ring.size \in Nat \ {0}
  BY DEF Sane
<1> QED BY <1>1 DEF InPage

LEMMA FromNext ==
  ASSUME Sane, ring \in Rings, NEW i \in Nat
  PROVE  /\ From(i) \in Nat
         /\ From(i + 1) = From(i) + (IF i = 0 THEN Page - InPage ELSE Page)
<1>1. Page \in Nat \ {0} /\ InPage \in 0 .. (Page - 1)
  BY RingType
<1>2. (i + 1) * Page = i * Page + Page
  BY <1>1
<1>3. i # 0 => i * Page >= Page
  <2>1. i # 0 => (i - 1) * Page >= 0
    BY <1>1
  <2>2. i * Page = (i - 1) * Page + Page
    BY <1>1
  <2> QED BY <1>1, <2>1, <2>2
<1> QED BY <1>1, <1>2, <1>3 DEF From

LEMMA OnPage ==
  ASSUME Sane, ring \in Rings, NEW i \in Nat
  PROVE  (ring.offset + From(i)) % Page = IF i = 0 THEN InPage ELSE 0
<1>1. Page \in Nat \ {0} /\ ring.offset \in Nat
  BY RingType
<1>2. CASE i = 0
  BY <1>1, <1>2 DEF From, InPage
<1>3. CASE i # 0
  <2> DEFINE q == ring.offset \div Page
  <2>1. q \in Int /\ InPage \in Int /\ ring.offset = Page * q + InPage
    <3>1. \A a \in Int, b \in Nat \ {0} :
            a % b \in Int /\ a \div b \in Int /\ a = b * (a \div b) + (a % b)
      BY ModRange
    <3>2. /\ ring.offset % Page \in Int /\ ring.offset \div Page \in Int
          /\ ring.offset = Page * (ring.offset \div Page) + (ring.offset % Page)
      <4> DEFINE o == ring.offset
      <4>1. o \in Int
        BY <1>1
      <4> HIDE DEF o
      <4>2. o % Page \in Int /\ o \div Page \in Int /\ o = Page * (o \div Page) + (o % Page)
        BY <1>1, <3>1, <4>1
      <4> QED BY <4>2 DEF o
    <3> QED BY <3>2 DEF InPage
  <2>2. ring.offset + From(i) = (q + i) * Page + 0
    BY <1>1, <1>3, <2>1 DEF From
  <2>3. ring.offset + From(i) \in Int /\ q + i \in Int /\ 0 \in 0 .. (Page - 1)
    BY <1>1, <2>1, FromNext
  <2> HIDE DEF q
  <2> QED BY <1>1, <1>3, <2>2, <2>3, ModUnique
<1> QED BY <1>2, <1>3

(* The last block of an input buffer that ends inside a page has as many   *)
(* bytes as stand before the buffer in its first page.                     *)
LEMMA LastBlock ==
  ASSUME Sane, ring \in Rings, ring.kind = "inp", NEW i \in Nat,
         From(i) < ring.size, ring.size < From(i + 1)
  PROVE  From(i) + InPage = ring.size
<1> DEFINE m == ring.size \div Page
<1>1. Page \in Nat \ {0} /\ InPage \in 0 .. (Page - 1) /\ ring.size \in Nat \ {0}
  BY RingType
<1>2. m \in Int /\ ring.size = m * Page
  <2>1. ring.size % Page = 0
    BY DEF Sane
  <2> QED BY <1>1, <2>1
<1> HIDE DEF m
<1>3. From(i + 1) = (i + 1) * Page - InPage /\ (i + 1) * Page = i * Page + Page
  BY <1>1 DEF From
<1>4. i * Page - InPage < m * Page
  BY <1>1, <1>2 DEF From
<1>5. (m - i) * Page = m * Page - i * Page
  BY <1>1, <1>2
<1>6. -Page < (m - i) * Page /\ (m - i) * Page < Page
  BY <1>1, <1>2, <1>3, <1>4, <1>5
<1>7. m = i
  <2>1. m - i = 0
    BY <1>1, <1>2, <1>6, NoMultipleBetween
  <2> QED BY <1>2, <2>1
<1>8. i # 0
  BY <1>1, <1>2, <1>7
<1> QED BY <1>1, <1>2, <1>7, <1>8 DEF From

(* There is a descriptor for each block that is begun, and one more for an *)
(* output.                                                                 *)
LEMMA Room ==
  ASSUME Sane, ring \in Rings, NEW i \in Nat, From(i) < ring.size
  PROVE  i \in Index /\ (ring.kind = "out" => i + 1 \in Index)
<1>1. Page \in Nat \ {0} /\ InPage \in 0 .. (Page - 1) /\ ring.size \in Nat /\ Count \in Nat
  BY RingType DEF Sane
<1> DEFINE n == IF ring.kind = "out" THEN Count - 1 ELSE Count
<1>2. n \in Int /\ ring.size + InPage <= n * Page
  BY <1>1 DEF Sane, InPage
<1>3. i * Page < n * Page
  <2>1. CASE i = 0
    BY <1>1, <1>2, <2>1 DEF From
  <2>2. CASE i # 0
    BY <1>1, <1>2, <2>2 DEF From
  <2> QED BY <2>1, <2>2
<1>4. i < n
  <2> SUFFICES ASSUME i >= n PROVE FALSE
    BY <1>2
  <2> HIDE DEF n
  <2>1. (i - n) * Page >= 0 /\ (i - n) * Page = i * Page - n * Page
    BY <1>1, <1>2
  <2> QED BY <1>1, <1>2, <1>3, <2>1
<1> QED BY <1>1, <1>4 DEF Index

(* The addresses that the board gets.                                      *)
LEMMA AlignedAddress ==
  ASSUME Sane, NEW i \in Nat
  PROVE  /\ Address(i) \in Int /\ Masked(Address(i)) = Address(i)
         /\ Pointer(i) \in Int /\ Masked(Pointer(i)) = Address(i) - 3 * Size
<1>1. Base \in Nat /\ Base % 16 = 0
  BY DEF Sane, Size
<1> QED BY <1>1 DEF Address, Pointer, Masked, Size

LEMMA InitIInv == ASSUME Sane, Init PROVE IInv
<1>1. Unset \notin Index /\ reads = Unset /\ at = Unset
  BY DEF Init, Index, Unset, Sane
<1>2. TypeOK
  BY DEF Init, TypeOK, Unset
<1> QED BY <1>1, <1>2 DEF IInv, Init

LEMMA CheckStep ==
  ASSUME Sane, IInv, CheckDescriptorBlocks
  PROVE  IInv'
<1>1. /\ at = Unset /\ at' = 0 /\ UNCHANGED <<ring, set, reads>>
      /\ set = 0 /\ reads = Unset /\ ring \in Rings
      /\ Page \in Nat \ {0} /\ ring.size \in Nat \ {0}
  BY RingType DEF CheckDescriptorBlocks, IInv, TypeOK
<1>2. 0 \in Index
  <2>1. From(0) < ring.size
    BY <1>1 DEF From
  <2> QED BY <1>1, <2>1, Room
<1>3. /\ chain' \in [Index -> [from: Int, bytes: Int, next: Int]]
      /\ \A i \in Index : i + 1 \in Index => chain'[i].next = Pointer(i + 1)
  <2>1. chain \in [Index -> [from: Int, bytes: Int, next: Int]]
    BY DEF IInv, TypeOK
  <2>2. \A i \in Index : Pointer(i + 1) \in Int
    <3> TAKE i \in Index
    <3>1. i + 1 \in Nat
      BY DEF Index
    <3> QED BY <3>1, AlignedAddress
  <2> QED BY <2>1, <2>2 DEF CheckDescriptorBlocks
<1>4. Building'
  BY <1>1, <1>3 DEF Building, From
<1>5. TypeOK'
  BY <1>1, <1>2, <1>3 DEF TypeOK
<1>6. at' # Unset
  BY <1>1 DEF Unset
<1> QED BY <1>1, <1>4, <1>5, <1>6 DEF IInv

(* The block that one turn of the loop describes ends where the next one   *)
(* begins or, the last one, where the buffer ends.                         *)
LEMMA BlockBytes ==
  ASSUME Sane, ring \in Rings, at \in Nat, set = From(at), set < ring.size,
         NEW count, count = set + BlockSize
  PROVE  /\ count = From(at + 1) /\ count \in Nat
         /\ Bytes(count) \in Int /\ Bytes(count) > 0
         /\ ((ring.offset + From(at)) % Page) + Bytes(count) <= Page
         /\ count < ring.size => Bytes(count) = From(at + 1) - From(at)
         /\ count >= ring.size => From(at) + Bytes(count) = ring.size
<1>1. /\ Page \in Nat \ {0} /\ ring.size \in Nat \ {0} /\ InPage \in 0 .. (Page - 1)
      /\ From(at) \in Nat /\ From(at + 1) \in Nat
  BY RingType, FromNext
<1>2. BlockSize = IF at = 0 THEN Page - InPage ELSE Page
  BY DEF BlockSize, InPage
<1>3. count = From(at + 1) /\ BlockSize = From(at + 1) - From(at)
  BY <1>1, <1>2, FromNext
<1>4. /\ Bytes(count) \in Int
      /\ count <= ring.size => Bytes(count) = BlockSize
      /\ count > ring.size => From(at) + Bytes(count) = ring.size
  <2>1. CASE count <= ring.size
    BY <1>1, <1>2, <1>3, <2>1 DEF Bytes
  <2>2. CASE count > ring.size /\ ring.kind = "inp"
    <3>1. From(at) + InPage = ring.size
      BY <1>1, <1>3, <2>2, LastBlock
    <3>2. Bytes(count) = InPage
      BY <1>1, <1>3, <2>2 DEF Bytes, InPage
    <3> QED BY <1>1, <1>3, <2>2, <3>1, <3>2
  <2>3. CASE count > ring.size /\ ring.kind # "inp"
    <3>1. ring.size >= Page
      BY <1>1, <2>3 DEF Sane
    <3>2. at # 0
      BY <1>1, <1>2, <1>3, <2>3, <3>1 DEF From
    <3>3. Bytes(count) = Page - (count - ring.size)
      BY <1>1, <1>3, <2>3 DEF Bytes
    <3> QED BY <1>1, <1>2, <1>3, <2>3, <3>2, <3>3
  <2> QED BY <1>1, <1>3, <2>1, <2>2, <2>3
<1>5. Bytes(count) > 0 /\ Bytes(count) <= BlockSize
  BY <1>1, <1>2, <1>3, <1>4
<1>6. ((ring.offset + From(at)) % Page) + BlockSize = Page
  BY <1>1, <1>2, OnPage
<1>7. (ring.offset + From(at)) % Page \in Int
  BY <1>1, OnPage
<1> QED BY <1>1, <1>3, <1>4, <1>5, <1>6, <1>7, <1>2

LEMMA DescribeStep ==
  ASSUME Sane, IInv, Describe
  PROVE  IInv'
<1> DEFINE count == set + BlockSize
           last  == count >= ring.size
           next  == IF last THEN Pointer(0) ELSE chain[at].next
           block == [chain EXCEPT ![at] = Block(count, next)]
<1>1. /\ at \in Index /\ at \in Nat /\ reads = Unset /\ TypeOK /\ Building
      /\ set = From(at) /\ set < ring.size /\ ring \in Rings /\ ring' = ring
      /\ ring.size \in Nat
  <2>1. at # Unset /\ reads = Unset /\ ring' = ring
    BY DEF Describe
  <2>2. TypeOK /\ Building /\ at \in Index
    BY <2>1 DEF IInv, TypeOK
  <2>3. ring \in Rings
    BY <2>2 DEF TypeOK
  <2> QED BY <2>1, <2>2, <2>3, RingType DEF Building, Index
<1>2. /\ count = From(at + 1) /\ count \in Nat
      /\ Bytes(count) \in Int /\ Bytes(count) > 0
      /\ ((ring.offset + From(at)) % Page) + Bytes(count) <= Page
      /\ count < ring.size => Bytes(count) = From(at + 1) - From(at)
      /\ count >= ring.size => From(at) + Bytes(count) = ring.size
  BY <1>1, BlockBytes
<1>3. /\ set' = count /\ at' = IF last THEN at ELSE at + 1
      /\ chain' = IF last /\ ring.kind = "out" THEN [block EXCEPT ![at + 1] = PadBlock]
                  ELSE block
      /\ reads' = IF last THEN Masked(Pointer(0)) ELSE Unset
  BY DEF Describe
<1>4. chain \in [Index -> [from: Int, bytes: Int, next: Int]] /\ set \in Nat
  BY <1>1 DEF TypeOK
<1>5. at + 1 \in Index => chain[at].next = Pointer(at + 1)
  BY <1>1 DEF Building
<1>6. /\ ~last => at + 1 \in Index
      /\ ring.kind = "out" => at + 1 \in Index
  <2>1. ~last => From(at + 1) < ring.size
    BY <1>1, <1>2
  <2>2. at + 1 \in Nat
    BY <1>1
  <2> QED BY <1>1, <2>1, <2>2, Room
<1>7. /\ next \in Int
      /\ Masked(next) = Address(IF last THEN 0 ELSE at + 1) - 3 * Size
      /\ Masked(next) \in Int
  BY <1>1, <1>5, <1>6, AlignedAddress DEF Size
<1>8. Block(count, next) = [from |-> From(at), bytes |-> Bytes(count), next |-> Masked(next)]
  BY <1>1 DEF Block
<1>9. PadBlock \in [from: Int, bytes: Int, next: Int]
  <2>1. ring.pad \in Nat /\ Page \in Nat /\ at + 1 \in Nat
    BY <1>1 DEF Sane
  <2> QED BY <2>1, AlignedAddress DEF PadBlock
<1> HIDE DEF count, next
<1>10. /\ chain' \in [Index -> [from: Int, bytes: Int, next: Int]]
       /\ chain'[at] = [from |-> From(at), bytes |-> Bytes(count), next |-> Masked(next)]
       /\ \A i \in Index : i # at /\ i # at + 1 => chain'[i] = chain[i]
       /\ ~(last /\ ring.kind = "out") => \A i \in Index : i # at => chain'[i] = chain[i]
       /\ last /\ ring.kind = "out" => chain'[at + 1] = PadBlock
  <2>1. Block(count, next) \in [from: Int, bytes: Int, next: Int]
    BY <1>1, <1>2, <1>4, <1>7, <1>8
  <2>2. at # at + 1
    BY <1>1
  <2> QED BY <1>1, <1>3, <1>4, <1>6, <1>8, <1>9, <2>1, <2>2
<1>11. \A i : From(i)' = From(i)
  BY <1>1 DEF From, InPage
<1>12. \A i \in 0 .. at - 1 : /\ Leads(i, i + 1)'
                              /\ chain'[i].bytes = From(i + 1) - From(i)
  <2>1. TAKE i \in 0 .. at - 1
  <2>2. i \in Index /\ chain'[i] = chain[i]
    <3>1. i \in Index /\ i # at /\ i # at + 1
      <4>1. Count \in Nat
        BY DEF Sane
      <4> QED BY <1>1, <2>1, <4>1 DEF Index
    <3> QED BY <1>10, <3>1
  <2>3. Leads(i, i + 1) /\ chain[i].bytes = From(i + 1) - From(i)
    BY <1>1, <2>1 DEF Building
  <2> QED BY <1>1, <1>11, <2>2, <2>3 DEF Leads
<1> PICK k \in Index : k = at   \* the number of this block, before and after the step
  BY <1>1
<1>13. TypeOK'
  <2>1. at' \in Index
    BY <1>1, <1>3, <1>6
  <2> QED BY <1>1, <1>2, <1>3, <1>10, <2>1 DEF TypeOK
<1>14. at' # Unset
  BY <1>1, <1>3 DEF Unset
<1>15. CASE ~last
  <2>1. Leads(k, k + 1)' /\ chain'[k].bytes = From(k + 1) - From(k)
    BY <1>1, <1>2, <1>7, <1>10, <1>11, <1>15 DEF Leads
  <2>2. \A i \in 0 .. at : Leads(i, i + 1)' /\ chain'[i].bytes = From(i + 1) - From(i)
    <3> TAKE i \in 0 .. at
    <3>1. CASE i = k
      BY <2>1, <3>1
    <3>2. CASE i # k
      <4>1. i \in 0 .. at - 1
        BY <1>1, <3>2
      <4> QED BY <1>12, <4>1
    <3> QED BY <3>1, <3>2
  <2>3. \A i \in Index : i >= at' /\ i + 1 \in Index => chain'[i].next = Pointer(i + 1)
    <3> TAKE i \in Index
    <3> HAVE i >= at' /\ i + 1 \in Index
    <3>1. i # at /\ i >= at
      BY <1>1, <1>3, <1>15 DEF Index
    <3> QED BY <1>1, <1>10, <1>15, <3>1 DEF Building
  <2>4. set' = From(at') /\ set' < ring.size /\ at' = at + 1
    BY <1>1, <1>2, <1>3, <1>15
  <2>5. at' - 1 = at
    BY <1>1, <2>4
  <2>6. Building'
    BY <1>1, <1>11, <2>2, <2>3, <2>4, <2>5 DEF Building
  <2>7. reads' = Unset
    BY <1>3, <1>15
  <2> QED BY <1>13, <1>14, <2>6, <2>7 DEF IInv
<1>16. CASE last
  <2>1. at' = at /\ reads' = Address(0) - 3 * Size
    BY <1>3, <1>16, AlignedAddress
  <2>2. Leads(k, Meant(k))' /\ From(k) + chain'[k].bytes = ring.size
    BY <1>1, <1>2, <1>7, <1>10, <1>11, <1>16, <2>1 DEF Leads, Meant
  <2>3. \A i \in 0 .. at : Leads(i, Meant(i))'
    <3> TAKE i \in 0 .. at
    <3>1. CASE i = k
      BY <2>2, <3>1
    <3>2. CASE i # k
      <4>1. i \in 0 .. at - 1
        BY <1>1, <3>2
      <4> QED BY <1>12, <2>1, <3>2, <4>1 DEF Meant
    <3> QED BY <3>1, <3>2
  <2>4. ring.kind = "out" => /\ chain'[at + 1].from = ring.pad
                             /\ chain'[at + 1].next = Address(at + 1)
    <3>1. at + 1 \in Nat
      BY <1>1
    <3> QED BY <1>10, <1>16, <3>1, AlignedAddress DEF PadBlock
  <2>5. Built'
    BY <1>1, <1>11, <1>12, <2>1, <2>2, <2>3, <2>4 DEF Built, Address
  <2>6. reads' # Unset
    <3>1. Base \in Nat /\ Base % 16 = 0
      BY DEF Sane, Size
    <3> QED BY <2>1, <3>1 DEF Address, Size, Unset
  <2> QED BY <1>13, <1>14, <2>5, <2>6 DEF IInv
<1> QED BY <1>15, <1>16

LEMMA NextIInv ==
  ASSUME Sane, IInv, [Next]_vars
  PROVE  IInv'
<1>1. CASE UNCHANGED vars
  BY <1>1 DEF vars, IInv, TypeOK, Building, Built, Leads, From, InPage, Meant
<1>2. CASE Next
  BY <1>2, CheckStep, DescribeStep DEF Next
<1> QED BY <1>1, <1>2

LEMMA BuiltCovers ==
  ASSUME Sane, IInv
  PROVE  ChainCovers
<1> SUFFICES ASSUME Given PROVE ChainCovers
  BY DEF ChainCovers, Covers, ThreeShort
<1>1. TypeOK /\ Built /\ at \in Index
  BY DEF IInv, TypeOK, Given
<1>2. ring \in Rings /\ at \in Nat /\ Base \in Nat
  BY <1>1 DEF TypeOK, Index, Sane
<1>3. \A i \in 1 .. at : chain[i].from = chain[i - 1].from + chain[i - 1].bytes
  <2> TAKE i \in 1 .. at
  <2>1. i \in 0 .. at /\ i - 1 \in 0 .. at - 1 /\ i - 1 \in 0 .. at /\ (i - 1) + 1 = i
    BY <1>2
  <2>2. chain[i].from = From(i) /\ chain[i - 1].from = From(i - 1)
    BY <1>1, <2>1 DEF Built, Leads
  <2>3. chain[i - 1].bytes = From(i) - From(i - 1)
    BY <1>1, <2>1 DEF Built
  <2>4. From(i) \in Nat /\ From(i - 1) \in Nat
    BY <1>2, <2>1, FromNext
  <2> QED BY <2>2, <2>3, <2>4
<1>4. chain[0].from = 0 /\ chain[at].from + chain[at].bytes = ring.size
  <2>1. 0 \in 0 .. at /\ at \in 0 .. at
    BY <1>2
  <2> QED BY <1>1, <2>1 DEF Built, Leads, From
<1>5. ring.kind = "out" => /\ chain[at + 1].from >= ring.size
                           /\ chain[at + 1].next = Address(at + 1)
  <2>1. ring.kind = "out" => ring.size <= ring.pad
    BY <1>2 DEF Sane
  <2> QED BY <1>1, <1>2, <2>1 DEF Built, Sane
<1>6. \A i \in 0 .. at :
        /\ chain[i].bytes > 0
        /\ ((ring.offset + chain[i].from) % Page) + chain[i].bytes <= Page
  BY <1>1 DEF Built, Leads
<1>7. \A i \in 0 .. at : chain[i].next = Address(Meant(i)) - 3 * Size
  BY <1>1 DEF Built, Leads
<1>8. reads \notin {Address(i) : i \in Index}
  BY <1>1, <1>2 DEF Built, Index, Address, Size
<1> QED BY <1>3, <1>4, <1>5, <1>6, <1>7, <1>8 DEF ChainCovers, Covers, ThreeShort

(* For every page and chain and every buffer with room in them, wherever   *)
(* it begins: the blocks that adcSetupChainDescriptors and                 *)
(* dacSetupChainDescriptors set up cover the buffer once, in order, within *)
(* pages, and every address is three descriptors short.                    *)
THEOREM EveryChainCovers ==
  ASSUME Sane
  PROVE  Spec => []ChainCovers
<1>1. Init => IInv
  BY InitIInv
<1>2. IInv /\ [Next]_vars => IInv'
  BY NextIInv
<1>3. IInv => ChainCovers
  BY BuiltCovers
<1> QED BY <1>1, <1>2, <1>3, PTL DEF Spec
=============================================================================
