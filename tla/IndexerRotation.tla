--------------------------- MODULE IndexerRotation ---------------------------
(***************************************************************************)
(* The scanner with a monitor that counts, for every contract that has a   *)
(* range due, the ranges committed for other contracts since its last, or  *)
(* since the last failure.                                                 *)
(***************************************************************************)
EXTENDS IndexerScanner

\* Ids are those of rows of a table.
ASSUME IdsAssumption == Contract \subseteq Nat \ {0} /\ IsFiniteSet(Contract)

VARIABLE waits

Advanced(c) ==
    /\ checkpoint[c] # NoCheckpoint /\ checkpoint'[c] # NoCheckpoint
    /\ checkpoint'[c].next > checkpoint[c].next

\* Known to the run that commits, with a range below that run's safe head.
HasRangeDue(c) ==
    \E i \in Instance : \E k \in 1..run[i].n :
        /\ run[i].pc = "commit"
        /\ tracked[k] = c
        /\ checkpoint[c] # NoCheckpoint => checkpoint[c].next <= run[i].safe

MonitorInit == ScannerInit /\ waits = [c \in Contract |-> 0]

MonitorNext ==
    /\ Next
    /\ waits' = CASE faults' # faults -> [c \in Contract |-> 0]
                  [] faults' = faults /\ (\E c \in Contract : Advanced(c)) ->
                        [d \in Contract |-> IF HasRangeDue(d) /\ ~Advanced(d) THEN waits[d] + 1 ELSE 0]
                  [] OTHER -> waits

MonitorSpec == MonitorInit /\ [][MonitorNext]_<<vars, waits>>

FairMonitorSpec ==
    MonitorSpec /\ \A i \in Instance : WF_<<vars, waits>>(Step(i) /\ MonitorNext)

\* scanner.go: "Rotate over the eligible contracts so a busy deployment cannot
\* starve the others". A contract with a range due waits for at most one range of
\* every other contract, also when a rewind or a new contract comes in between,
\* and begins a new round after a failure or a crash, which forgets the cursor.
WaitsOneRound == \A c \in Contract : waits[c] < Cardinality(Contract)
=============================================================================
