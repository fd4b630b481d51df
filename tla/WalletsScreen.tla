---------------------------- MODULE WalletsScreen ----------------------------
(***************************************************************************)
(* A visit: one call, the restore of a session or a sign-in that may find  *)
(* the API asleep, and, once it has succeeded, the wallets screen.         *)
(***************************************************************************)
EXTENDS WalletsPage

vars == <<call, pageVars>>

\* What is left of a call that has been answered and forgotten.
Open == [method |-> "GET", policy |-> TRUE, phase |-> "settled", retries |-> 0,
         elapsed |-> 0, sent |-> 1, aborted |-> FALSE, code |-> ""]

Init == CallInit /\ PageInit

Calling == call # Open

CallStep == Calling /\ CallNext /\ UNCHANGED pageVars

\* The call is settled and forgotten: GuestOnly and RequireAuth let the screen in.
OpenScreen ==
    /\ Calling /\ call.phase = "done" /\ call.code = ""
    /\ call' = Open
    /\ UNCHANGED pageVars

PageStep == ~Calling /\ PageNext /\ UNCHANGED call

Next == CallStep \/ OpenScreen \/ PageStep

Spec == Init /\ [][Next]_vars
=============================================================================
