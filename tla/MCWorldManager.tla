---------------------------- MODULE MCWorldManager ----------------------------
(* One account goes to and fro through the Tunnel on two devices, or meets the end of the  *)
(* process.                                                                                *)
EXTENDS WorldManager, TLC

CONSTANTS ana, phone, laptop, global

TwoDevices == (phone :> ana) @@ (laptop :> ana)
BornToAna  == ana :> {1, 2, 3, 4}

\* Every wait is answered in time and nobody idles out; both go wrong; the end, calm or idle.
MCCases ==
  { [prompt |-> TRUE,  stops |-> FALSE, callers |-> {phone, laptop}, idles |-> 0, calls |-> 3, threads |-> 4],
    [prompt |-> FALSE, stops |-> FALSE, callers |-> {phone, laptop}, idles |-> 1, calls |-> 2, threads |-> 4],
    [prompt |-> TRUE,  stops |-> TRUE,  callers |-> {phone}, idles |-> 0, calls |-> 2, threads |-> 6],
    [prompt |-> TRUE,  stops |-> TRUE,  callers |-> {phone}, idles |-> 1, calls |-> 1, threads |-> 6] }

\* Threads are scheduled and the mutex handed on, as FairSpec says; only the end needs it.
MCSpec ==
  /\ Spec
  /\ \A c \in {phone} : WF_vars(case.stops /\ Calls(c))
  /\ \A t \in 1..MaxThreads : WF_vars(case.stops /\ t \in Threads /\ Lives(t))
  /\ WF_vars(case.stops /\ JoinsAll) /\ WF_vars(case.stops /\ Exits)

\* Every call of the manager returns, unless the process exits first (the phone makes the calls here).
CallsReturn == case.stops /\ InCall(phone) ~> (~InCall(phone) \/ ~Alive)
=============================================================================
