--------------------------- MODULE MCGameplayState ---------------------------
EXTENDS GameplayState

\* Four heaps, two of which meet at 26, and two gaps: one holds a word, the other a
\* byte. The pages of the layout below.
SmallHeapOf ==
    [address \in 0 .. 31 |->
        CASE address < 22 -> 1
          [] address \in 24 .. 25 -> 2
          [] address = 26 -> 3
          [] address > 27 -> 4
          [] OTHER -> NoHeap]
SmallGlobal ==
    [frontendRoot |-> 2, activePlayer |-> 4, humanMask |-> 6,
     civilizations |-> 8, eras |-> 12, turn |-> 16, year |-> 18,
     interfaceGate |-> 20]
Pages == {0 .. 4, 5 .. 10, 11 .. 16, 17 .. 21, 22 .. 27, 28 .. 31}
SmallAccessibles == {UNION pages : pages \in SUBSET Pages}
=============================================================================
