-------------------------- MODULE DescriptorChain --------------------------
(***************************************************************************)
(* The descriptor chains of the board's two DMA channels, as               *)
(* adcSetupChainDescriptors and dacSetupChainDescriptors (adc.c, dac.c)    *)
(* write them when an acquisition or a waveform is armed: addresses and    *)
(* lengths are in bytes, physical memory is linear, pointers have 32 bits. *)
(* Each buffer is covered by blocks that end where a page does, one block  *)
(* for each descriptor.                                                    *)
(***************************************************************************)
EXTENDS Integers

CONSTANTS Page,  \* bytes of a page (4096)
          Count, \* descriptors of a chain: INPCHAINSIZE, OUTCHAINSIZE
          Base,  \* address of the first
          Rings  \* [kind, offset, size, pad]: an input or output buffer, where it
                 \* begins in its page, the part of it that is transferred, and
                 \* padBlockStartIndex

VARIABLES ring,
          chain, \* the descriptors: [from, bytes, next]
          at,    \* descIndex
          set,   \* bufCount
          reads  \* what the board is given for its first descriptor, Unset before

vars == <<ring, chain, at, set, reads>>

Index == 0 .. Count - 1
Unset == -1
Size == 16   \* bytes of a descriptor
Address(i) == Base + Size * i

(* The pointer that both functions compute: a PDWORD less 15, which takes  *)
(* 60 bytes off where 15 had been added.  The low four bits are for flags. *)
Pointer(i) == Address(i) + 15 - 4 * 15
Masked(a) == (a \div Size) * Size

(* What is assumed of the constants: descriptors begin on 16 bytes, input  *)
(* buffers have whole pages, the part of an output buffer in use has a     *)
(* page at least and ends before its pad block, and each buffer has the    *)
(* descriptors it needs, an output one more.                               *)
Sane ==
  /\ Page \in Nat \ {0} /\ Count \in Nat /\ Base \in Nat /\ Base % Size = 0
  /\ \A r \in Rings :
       /\ r.kind \in {"inp", "out"}
       /\ r.offset \in Nat /\ r.size \in Nat \ {0} /\ r.pad \in Nat
       /\ r.kind = "inp" => /\ r.size % Page = 0
                            /\ r.size + (r.offset % Page) <= Count * Page
       /\ r.kind = "out" => /\ r.size \in Page .. r.pad
                            /\ r.size + (r.offset % Page) <= (Count - 1) * Page

Init ==
    /\ ring \in Rings
    /\ chain = [i \in Index |-> [from |-> Unset, bytes |-> 0, next |-> Unset]]
    /\ at = Unset /\ set = 0 /\ reads = Unset

(* adcCheckDescriptorBlocks, dacCheckDescriptorBlocks: as memory is linear *)
(* every descriptor is valid.                                              *)
CheckDescriptorBlocks ==
    /\ at = Unset
    /\ chain' = [i \in Index |->
                    IF i + 1 \in Index THEN [chain[i] EXCEPT !.next = Pointer(i + 1)] ELSE chain[i]]
    /\ at' = 0
    /\ UNCHANGED <<ring, set, reads>>

BlockSize == IF at = 0 THEN Page - (ring.offset % Page) ELSE Page
WholePage(count) ==   \* mutant: the last block is not shortened
    BlockSize
Bytes(count) ==
    IF count <= ring.size THEN BlockSize
    ELSE IF ring.kind = "inp" THEN ring.offset % Page
    ELSE Page - (count - ring.size)

(* A block; the last one leads back to the first, and the output has one   *)
(* more, the pad block, which leads to itself.                             *)
Block(count, next) == [from |-> set, bytes |-> Bytes(count), next |-> Masked(next)]
PadBlock ==
    [from |-> ring.pad, bytes |-> Page - Page \div 16, next |-> Masked(Address(at + 1))]

Describe ==
    /\ at # Unset /\ reads = Unset
    /\ LET count == set + BlockSize
           last  == count >= ring.size
           next  == IF last THEN Pointer(0) ELSE chain[at].next
           block == [chain EXCEPT ![at] = Block(count, next)]
       IN  /\ chain' = IF last /\ ring.kind = "out" THEN [block EXCEPT ![at + 1] = PadBlock]
                       ELSE block
           /\ set' = count
           /\ at' = IF last THEN at ELSE at + 1
           /\ reads' = IF last THEN Masked(Pointer(0)) ELSE Unset
    /\ UNCHANGED ring

Next == CheckDescriptorBlocks \/ Describe

Spec == Init /\ [][Next]_vars
-----------------------------------------------------------------------------
(* When the chain is given to the board its blocks cover the buffer once,  *)
(* in order, and none crosses a page, wherever the buffer begins.          *)
Given == reads # Unset
Covers ==
    Given => /\ \A i \in 1 .. at : chain[i].from = chain[i - 1].from + chain[i - 1].bytes
             /\ chain[0].from = 0 /\ chain[at].from + chain[at].bytes = ring.size
             /\ ring.kind = "out" => /\ chain[at + 1].from >= ring.size
                                     /\ chain[at + 1].next = Address(at + 1)
             /\ \A i \in 0 .. at :
                   /\ chain[i].bytes > 0
                   /\ ((ring.offset + chain[i].from) % Page) + chain[i].bytes <= Page

(* The board would follow the blocks in this order, and for ever, if the   *)
(* addresses that lead to them were meant for the third descriptor behind: *)
(* as they are computed each is three descriptors short, and the first     *)
(* that the board reads lies in front of the chain.                        *)
Meant(i) == IF i = at THEN 0 ELSE i + 1
ThreeShort ==
    Given => /\ \A i \in 0 .. at : chain[i].next = Address(Meant(i)) - 3 * Size
             /\ reads \notin {Address(i) : i \in Index}

(* The chain is what the code computes, its known slip included.           *)
ChainCovers == Covers /\ ThreeShort
=============================================================================
