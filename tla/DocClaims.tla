----------------------------- MODULE DocClaims ------------------------------
(***************************************************************************)
(* What the comments and the documentation say of the program and the code *)
(* does not do.  Each claim is checked by a run that refutes it.           *)
(***************************************************************************)
EXTENDS Simulator

(* CPUTest.cpp, line 83: that set() fails "may happen only on write        *)
(* attempts".                                                              *)
SetFailsOnlyOnWrites ==
  [][\A c \in CPUs : \A e \in queue :
       BackOff(c, e) => NextRequest(c).request = "WRITE"]_vars

(* main.tex, line 486: "During the refreshing phase, memory can not be     *)
(* accessed".  No access is under way then: the memory owes no answer.     *)
NoAccessWhileRefreshing ==
  Running /\ refreshing_phase =>
    \A e \in queue : \A c \in CPUs : ~Response(e, c)

(* main.tex, lines 499 and 500: all the rows are refreshed "at maximum     *)
(* every 64 ms", and in fact every 32 ms, that is every                    *)
(* REFRESHING_INTERVAL cycles of the bus.  From the start of a refreshing  *)
(* phase to the next one there are at most 64 ms.                          *)
RefreshedEvery64ms ==
  [][refreshing_phase_started_at > 0 =>
       refreshing_phase_started_at' - refreshing_phase_started_at
         <= 2 * REFRESHING_INTERVAL]_vars
=============================================================================
