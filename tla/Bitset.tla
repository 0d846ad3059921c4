------------------------------- MODULE Bitset -------------------------------
(***************************************************************************)
(* The bitset of bitset.go, which the stream reassembler uses to remember  *)
(* which ring-buffer slots hold received but unread bytes.  A bitset of    *)
(* Size bits is represented by the set of the indices of its set bits;     *)
(* the code stores them in words of 32 bits, and ClearRun walks a run bit  *)
(* by bit up to a word boundary, then word by word, then bit by bit.  The  *)
(* word width is the constant WordBits so that runs spanning several words *)
(* are reached with a small Size.                                          *)
(***************************************************************************)
EXTENDS Naturals, FiniteSets

CONSTANTS
  Size,      \* number of bits (the stream receive window)
  WordBits   \* bits per word: 32 in the code

ASSUME Size \in Nat \ {0} /\ WordBits \in Nat \ {0}

Bits == 0 .. (Size - 1)

\* Test returns whether bit i is set.
Test(bs, i) == i \in bs

\* Mutant of Set: the last loop runs one bit too far.
SetPastEnd(bs, i, j) == bs \cup (i .. j)

\* Set sets bits i through j-1 (all three loops of Set only ever OR bits in).
Set(bs, i, j) == bs \cup (i .. (j - 1))

\* The bits of the word that holds bit j.
Word(j) == LET base == (j \div WordBits) * WordBits
           IN  base .. (base + WordBits - 1)

\* The three loops of ClearRun; each returns <<bitset, j>>.
RECURSIVE ClearHead(_, _, _), ClearWords(_, _, _), ClearTail(_, _, _)
RECURSIVE ClearWordsUnchecked(_, _, _)

\* Mutant of ClearWords: whole words are cleared without checking that
\* every bit of the word is set.
ClearWordsUnchecked(bs, j, k) ==
  IF j + WordBits <= k
  THEN ClearWordsUnchecked(bs \ Word(j), j + WordBits, k)
  ELSE <<bs, j>>

ClearHead(bs, j, k) ==
  IF j < k /\ j \in bs /\ j % WordBits # 0
  THEN ClearHead(bs \ {j}, j + 1, k)
  ELSE <<bs, j>>

ClearWords(bs, j, k) ==
  IF j + WordBits <= k /\ Word(j) \subseteq bs
  THEN ClearWords(bs \ Word(j), j + WordBits, k)
  ELSE <<bs, j>>

ClearTail(bs, j, k) ==
  IF j < k /\ j \in bs
  THEN ClearTail(bs \ {j}, j + 1, k)
  ELSE <<bs, j>>

\* ClearRun clears bits i through k-1 or until a cleared bit is found, and
\* returns <<number of bits cleared, new bitset>>.
ClearRun(bs, i, k) ==
  LET h == ClearHead(bs, i, k)
      w == ClearWords(h[1], h[2], k)
      t == ClearTail(w[1], w[2], k)
  IN  <<t[2] - i, t[1]>>

-----------------------------------------------------------------------------
(* The bitset as a component: any sequence of Set and ClearRun calls with  *)
(* in-range arguments, starting from newBitset (all bits clear).           *)

VARIABLES bits, lastRun

vars == <<bits, lastRun>>

Init ==
  /\ bits = {}
  /\ lastRun = <<0, 0, 0>>

SetBits(i, j) ==
  /\ bits' = Set(bits, i, j)
  /\ UNCHANGED lastRun

ClearRunBits(i, k) ==
  LET r == ClearRun(bits, i, k)
  IN  /\ bits' = r[2]
      /\ lastRun' = <<i, k, r[1]>>

Next ==
  \E i \in Bits, j \in 1 .. Size :
    /\ i < j
    /\ \/ SetBits(i, j)
       \/ ClearRunBits(i, j)

Spec == Init /\ [][Next]_vars

TypeOK ==
  /\ bits \subseteq Bits
  /\ lastRun \in (0 .. Size) \X (0 .. Size) \X (0 .. Size)

\* Reference: the length of the run of set bits starting at i, below k.
RunLength(bs, i, k) ==
  CHOOSE n \in 0 .. (k - i) :
    /\ (i .. (i + n - 1)) \subseteq bs
    /\ (i + n < k) => (i + n) \notin bs

(* ClearRun, whatever the word alignment of i and k, clears exactly the    *)
(* run of set bits that starts at bit i and stops at the first clear bit   *)
(* or at k, and returns its length (bitset.go ClearRun).                   *)
ClearRunCorrect ==
  [][\A i \in Bits, k \in 1 .. Size :
       ClearRunBits(i, k) =>
         /\ lastRun'[3] = RunLength(bits, i, k)
         /\ bits' = bits \ (i .. (i + lastRun'[3] - 1))]_vars
=============================================================================
