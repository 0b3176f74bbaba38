------------------------- MODULE WorldManagerProofs -------------------------
(***************************************************************************)
(* Proofs about the world manager.                                         *)
(*                                                                         *)
(* The inductive invariant, Always, says of every place a settler can be - *)
(* a running world, a save, a message, a call's hands, an answer - whose   *)
(* settlers may be there, and of every sender a call holds which world its *)
(* thread runs.  Requests that outlive their wait are told from the        *)
(* awaited one by their number.                                            *)
(*                                                                         *)
(* Told adds what holds while no wait runs out and no world idles out: one *)
(* thread of each world until the process is told to stop, and none of     *)
(* those told to stop is forgotten.  Census, on top of both, follows the   *)
(* settlers of a trip from hand to message to world until then.            *)
(*                                                                         *)
(* The steps of a call are first described by what they change (...Is),    *)
(* then each is shown to keep the three (...Keeps, ...Told, ...Census).    *)
(***************************************************************************)
EXTENDS WorldManager, Counting, SequenceTheorems

-----------------------------------------------------------------------------
(* Types *)

Places == {"out", "in", "own", "lock", "join", "forget", "again", "cen", "count", "stale", "recheck", "extract",
           "inject", "enter", "find", "fetch", "settle", "putback"} \cup WaitingPlaces
Goals   == {"none", "login", "central", "home"}
Answers == {Waiting, Dropped, Ungraduated} \cup [is : {"value"}, value : Nat \cup SUBSET Settlers]
Call    == [at : Places, goal : Goals, cen : Nat, own : Nat, want : Nat, held : SUBSET Settlers,
            retry : BOOLEAN, seq : Nat, ans : Answers]
Kinds   == {"join", "count", "settlers", "extract", "inject", "returnees"}
Message == [kind : Kinds, from : Conns, arg : Nat \cup SUBSET Settlers, seq : Nat]
Sts     == {"boot", "up", "leaving", "closed", "ended"}
Thread  == [key : Keys, st : Sts, flag : BOOLEAN, people : SUBSET Settlers, inbox : Seq(Message),
            guests : SUBSET Conns]

\* A thread of a list runs the world of a key.
Runs(th, t, k) == t \in 1..Len(th) /\ th[t].key = k

\* Every variable has its type, and every entry of the map leads to a thread of its key.
Shape ==
  /\ call \in [Conns -> Call] /\ thread \in Seq(Thread) /\ file \in [Keys -> SUBSET Settlers]
  /\ \A k \in DOMAIN worlds : k \in Keys /\ Runs(thread, worlds[k], k)
  /\ case \in Cases /\ stopping \in {"no", "flagged", "joining", "exited"}

-----------------------------------------------------------------------------
(* The steps of a call, by what they change *)

Turns(c, r) == call' = [call EXCEPT ![c] = r]
Moves(c, r) == Turns(c, r) /\ UNCHANGED thread
Puts(t, m)  == thread' = [thread EXCEPT ![t] = [thread[t] EXCEPT !.inbox = Append(thread[t].inbox, m)]]

Going(c, place)   == [call[c] EXCEPT !.at = place]
Leaving(c, place) == [Outside EXCEPT !.at = place, !.seq = call[c].seq]
Asked(c, waits)   == [call[c] EXCEPT !.at = waits, !.seq = call[c].seq + 1, !.ans = Waiting]
Asking(c, kind, arg) == [kind |-> kind, from |-> c, arg |-> arg, seq |-> call[c].seq + 1]
Telling(c, S)     == [kind |-> "inject", from |-> c, arg |-> S, seq |-> 0]

Asks(c, t, kind, arg, waits) == Hears(t) /\ Puts(t, Asking(c, kind, arg)) /\ Turns(c, Asked(c, waits))

\* It finds the world running, or starts it.
Finds(c, k, r) == k \in DOMAIN worlds /\ Moves(c, r) /\ UNCHANGED worlds
Starts(c, k, r) ==
  /\ k \in Keys \ DOMAIN worlds /\ Turns(c, r)
  /\ thread' = Append(thread, Fresh(k))
  /\ worlds' = [x \in DOMAIN worlds \cup {k} |-> IF x = k THEN Len(thread) + 1 ELSE worlds[x]]

Leaves(c, place) == Moves(c, Leaving(c, place)) /\ entry' = IF entry = c THEN Nobody ELSE entry
Goes(c, place)   == Moves(c, Going(c, place)) /\ UNCHANGED entry

\* Taking the entry lock.
LEMMA LockIs ==
  ASSUME Shape, NEW c \in Conns, Lock(c)
  PROVE  /\ call[c].at = "lock" /\ entry = Nobody /\ entry' = c /\ UNCHANGED <<worlds, file, stopping>>
         /\ Moves(c, Going(c, IF call[c].goal = "central" THEN "cen" ELSE "own"))
BY DEF Lock, Locks, At, Goto, Moves, Turns, Going, Shape

\* The personal world is found or started, or there are too many.
LEMMA OwnIs ==
  ASSUME Shape, NEW c \in Conns, Own(c)
  PROVE  /\ call[c].at = "own" /\ UNCHANGED <<file, stopping>>
         /\ \/ Leaves(c, "out") /\ UNCHANGED worlds
            \/ Finds(c, Me(c), [call[c] EXCEPT !.at = CASE call[c].goal = "login" -> "join" [] call[c].goal = "central" -> "extract" [] call[c].goal = "home" -> "find", !.own = worlds[Me(c)]]) /\ UNCHANGED entry
            \/ Starts(c, Me(c), [call[c] EXCEPT !.at = CASE call[c].goal = "login" -> "join" [] call[c].goal = "central" -> "extract" [] call[c].goal = "home" -> "find", !.own = (Len(thread) + 1)]) /\ UNCHANGED entry
<1>1. call[c].at = "own" /\ UNCHANGED <<file, stopping>>
  BY DEF Own, At, Quiet, Resolve
<1>2. CASE Full(Me(c)) /\ Ends(c, "out") /\ Quiet
  BY <1>1, <1>2 DEF Ends, Quiet, Leaves, Moves, Turns, Leaving
<1>3. CASE Resolve(c, Me(c), "own", CASE call[c].goal = "login" -> "join" [] call[c].goal = "central" -> "extract" [] call[c].goal = "home" -> "find")
  <2>1. CASE Me(c) \in DOMAIN worlds
    BY <1>1, <1>3, <2>1 DEF Resolve, GotoWith, Finds, Moves, Turns, Shape
  <2>2. CASE Me(c) \notin DOMAIN worlds
    <3>1. Me(c) \in Keys
      BY ManagerAssumption DEF Me, Keys
    <3>. QED BY <1>1, <1>3, <2>2, <3>1 DEF Resolve, GotoWith, Starts, Turns, Shape
  <2>. QED BY <2>1, <2>2
<1>. QED BY <1>2, <1>3 DEF Own

\* The central world is found or started.
LEMMA CenIs ==
  ASSUME Shape, NEW c \in Conns, Cen(c)
  PROVE  /\ call[c].at = "cen" /\ UNCHANGED <<file, stopping>>
         /\ \/ Finds(c, Central, [call[c] EXCEPT !.at = "count", !.cen = worlds[Central]]) /\ UNCHANGED entry
            \/ Starts(c, Central, [call[c] EXCEPT !.at = "count", !.cen = (Len(thread) + 1)]) /\ UNCHANGED entry
<1>1. call[c].at = "cen" /\ UNCHANGED <<file, stopping>>
  BY DEF Cen, At, Quiet, Resolve
<1>2. CASE Resolve(c, Central, "cen", "count")
  <2>1. CASE Central \in DOMAIN worlds
    BY <1>1, <1>2, <2>1 DEF Resolve, GotoWith, Finds, Moves, Turns, Shape
  <2>2. CASE Central \notin DOMAIN worlds
    <3>1. Central \in Keys
      BY ManagerAssumption DEF Me, Keys
    <3>. QED BY <1>1, <1>2, <2>2, <3>1 DEF Resolve, GotoWith, Starts, Turns, Shape
  <2>. QED BY <2>1, <2>2
<1>. QED BY <1>2 DEF Cen

\* And once more, after the count.
LEMMA RecheckIs ==
  ASSUME Shape, NEW c \in Conns, Recheck(c)
  PROVE  /\ call[c].at = "recheck" /\ UNCHANGED <<file, stopping>>
         /\ \/ Finds(c, Central, [call[c] EXCEPT !.at = (IF call[c].want = 0 THEN "enter" ELSE "own"), !.cen = worlds[Central]]) /\ UNCHANGED entry
            \/ Starts(c, Central, [call[c] EXCEPT !.at = (IF call[c].want = 0 THEN "enter" ELSE "own"), !.cen = (Len(thread) + 1)]) /\ UNCHANGED entry
<1>1. call[c].at = "recheck" /\ UNCHANGED <<file, stopping>>
  BY DEF Recheck, At, Quiet, Resolve
<1>2. CASE Resolve(c, Central, "cen", (IF call[c].want = 0 THEN "enter" ELSE "own"))
  <2>1. CASE Central \in DOMAIN worlds
    BY <1>1, <1>2, <2>1 DEF Resolve, GotoWith, Finds, Moves, Turns, Shape
  <2>2. CASE Central \notin DOMAIN worlds
    <3>1. Central \in Keys
      BY ManagerAssumption DEF Me, Keys
    <3>. QED BY <1>1, <1>2, <2>2, <3>1 DEF Resolve, GotoWith, Starts, Turns, Shape
  <2>. QED BY <2>1, <2>2
<1>. QED BY <1>2 DEF Recheck

\* After a stale world a fresh one is found or started.
LEMMA OwnAgainIs ==
  ASSUME Shape, NEW c \in Conns, OwnAgain(c)
  PROVE  /\ call[c].at = "again" /\ UNCHANGED <<file, stopping>>
         /\ \/ Leaves(c, "out") /\ UNCHANGED worlds
            \/ Finds(c, Me(c), [call[c] EXCEPT !.at = "join", !.retry = TRUE, !.own = worlds[Me(c)]]) /\ UNCHANGED entry
            \/ Starts(c, Me(c), [call[c] EXCEPT !.at = "join", !.retry = TRUE, !.own = (Len(thread) + 1)]) /\ UNCHANGED entry
<1>1. call[c].at = "again" /\ UNCHANGED <<file, stopping>>
  BY DEF OwnAgain, At, Quiet
<1>2. CASE Full(Me(c)) /\ Ends(c, "out") /\ Quiet
  BY <1>1, <1>2 DEF Ends, Quiet, Leaves, Moves, Turns, Leaving
<1>3. CASE ~(Full(Me(c)) /\ Ends(c, "out") /\ Quiet) /\ Me(c) \in DOMAIN worlds
  BY <1>1, <1>3 DEF OwnAgain, Finds, Moves, Turns, Shape
<1>4. CASE ~(Full(Me(c)) /\ Ends(c, "out") /\ Quiet) /\ Me(c) \notin DOMAIN worlds
  <2>1. Me(c) \in Keys
    BY ManagerAssumption DEF Me, Keys
  <2>. QED BY <1>1, <1>4, <2>1 DEF OwnAgain, Starts, Turns, Shape
<1>. QED BY <1>2, <1>3, <1>4

\* Asking to join the personal world.
LEMMA JoinOwnIs ==
  ASSUME Shape, NEW c \in Conns, JoinOwn(c)
  PROVE  /\ call[c].at = "join" /\ UNCHANGED <<worlds, file, stopping>>
         /\ \/ Asks(c, call[c].own, "join", {}, "joining") /\ UNCHANGED entry
            \/ ~Hears(call[c].own) /\ call[c].retry /\ Leaves(c, "out")
            \/ ~Hears(call[c].own) /\ ~call[c].retry /\ Goes(c, "forget")
<1>1. call[c].at = "join" /\ UNCHANGED <<worlds, file, stopping>>
  BY DEF JoinOwn, Ask, At
<1>2. CASE Hears(call[c].own)
  <2>1. Turns(c, Asked(c, "joining")) /\ UNCHANGED entry
    BY <1>2 DEF JoinOwn, Ask, Turns, Asked, Shape
  <2>2. Puts(call[c].own, Asking(c, "join", {}))
    BY <1>2 DEF JoinOwn, Ask, Puts, Asking, Shape
  <2>. QED BY <1>1, <1>2, <2>1, <2>2 DEF Asks
<1>3. CASE ~Hears(call[c].own)
  BY <1>1, <1>3 DEF JoinOwn, Ask, Ends, Goto, Leaves, Goes, Moves, Turns, Leaving, Going, Shape
<1>. QED BY <1>2, <1>3

\* Asking the central world how many are there.
LEMMA CountIs ==
  ASSUME Shape, NEW c \in Conns, Count(c)
  PROVE  /\ call[c].at = "count" /\ UNCHANGED <<worlds, file, stopping>>
         /\ \/ Asks(c, call[c].cen, "count", {}, "counting") /\ UNCHANGED entry
            \/ ~Hears(call[c].cen) /\ call[c].retry /\ Leaves(c, "out")
            \/ ~Hears(call[c].cen) /\ ~call[c].retry /\ Goes(c, "stale")
<1>1. call[c].at = "count" /\ UNCHANGED <<worlds, file, stopping>>
  BY DEF Count, Ask, At
<1>2. CASE Hears(call[c].cen)
  <2>1. Turns(c, Asked(c, "counting")) /\ UNCHANGED entry
    BY <1>2 DEF Count, Ask, Turns, Asked, Shape
  <2>2. Puts(call[c].cen, Asking(c, "count", {}))
    BY <1>2 DEF Count, Ask, Puts, Asking, Shape
  <2>. QED BY <1>1, <1>2, <2>1, <2>2 DEF Asks
<1>3. CASE ~Hears(call[c].cen)
  BY <1>1, <1>3 DEF Count, Ask, Ends, Goto, Leaves, Goes, Moves, Turns, Leaving, Going, Shape
<1>. QED BY <1>2, <1>3

\* Asking the personal world for migrants.
LEMMA ExtractIs ==
  ASSUME Shape, NEW c \in Conns, Extract(c)
  PROVE  /\ call[c].at = "extract" /\ UNCHANGED <<worlds, file, stopping>>
         /\ \/ Asks(c, call[c].own, "extract", call[c].want, "extracting") /\ UNCHANGED entry
            \/ ~Hears(call[c].own) /\ Leaves(c, "out")
<1>1. call[c].at = "extract" /\ UNCHANGED <<worlds, file, stopping>>
  BY DEF Extract, Ask, At
<1>2. CASE Hears(call[c].own)
  <2>1. Turns(c, Asked(c, "extracting")) /\ UNCHANGED entry
    BY <1>2 DEF Extract, Ask, Turns, Asked, Shape
  <2>2. Puts(call[c].own, Asking(c, "extract", call[c].want))
    BY <1>2 DEF Extract, Ask, Puts, Asking, Shape
  <2>. QED BY <1>1, <1>2, <2>1, <2>2 DEF Asks
<1>3. CASE ~Hears(call[c].own)
  BY <1>1, <1>3 DEF Extract, Ask, Ends, Goto, Leaves, Goes, Moves, Turns, Leaving, Going, Shape
<1>. QED BY <1>2, <1>3

\* Asking to join the central world.
LEMMA EnterIs ==
  ASSUME Shape, NEW c \in Conns, Enter(c)
  PROVE  /\ call[c].at = "enter" /\ UNCHANGED <<worlds, file, stopping>>
         /\ \/ Asks(c, call[c].cen, "join", {}, "entering") /\ UNCHANGED entry
            \/ ~Hears(call[c].cen) /\ Leaves(c, "out")
<1>1. call[c].at = "enter" /\ UNCHANGED <<worlds, file, stopping>>
  BY DEF Enter, Ask, At
<1>2. CASE Hears(call[c].cen)
  <2>1. Turns(c, Asked(c, "entering")) /\ UNCHANGED entry
    BY <1>2 DEF Enter, Ask, Turns, Asked, Shape
  <2>2. Puts(call[c].cen, Asking(c, "join", {}))
    BY <1>2 DEF Enter, Ask, Puts, Asking, Shape
  <2>. QED BY <1>1, <1>2, <2>1, <2>2 DEF Asks
<1>3. CASE ~Hears(call[c].cen)
  BY <1>1, <1>3 DEF Enter, Ask, Ends, Goto, Leaves, Goes, Moves, Turns, Leaving, Going, Shape
<1>. QED BY <1>2, <1>3

\* Asking the central world for the settlers.
LEMMA FetchIs ==
  ASSUME Shape, NEW c \in Conns, Fetch(c)
  PROVE  /\ call[c].at = "fetch" /\ UNCHANGED <<worlds, file, stopping>>
         /\ \/ Asks(c, call[c].cen, "settlers", {}, "fetching") /\ UNCHANGED entry
            \/ ~Hears(call[c].cen) /\ Goes(c, "join")
<1>1. call[c].at = "fetch" /\ UNCHANGED <<worlds, file, stopping>>
  BY DEF Fetch, Ask, At
<1>2. CASE Hears(call[c].cen)
  <2>1. Turns(c, Asked(c, "fetching")) /\ UNCHANGED entry
    BY <1>2 DEF Fetch, Ask, Turns, Asked, Shape
  <2>2. Puts(call[c].cen, Asking(c, "settlers", {}))
    BY <1>2 DEF Fetch, Ask, Puts, Asking, Shape
  <2>. QED BY <1>1, <1>2, <2>1, <2>2 DEF Asks
<1>3. CASE ~Hears(call[c].cen)
  BY <1>1, <1>3 DEF Fetch, Ask, Ends, Goto, Leaves, Goes, Moves, Turns, Leaving, Going, Shape
<1>. QED BY <1>2, <1>3

\* Asking the personal world to take them.
LEMMA SettleIs ==
  ASSUME Shape, NEW c \in Conns, Settle(c)
  PROVE  /\ call[c].at = "settle" /\ UNCHANGED <<worlds, file, stopping>>
         /\ \/ Asks(c, call[c].own, "returnees", call[c].held, "settling") /\ UNCHANGED entry
            \/ ~Hears(call[c].own) /\ Goes(c, "putback")
<1>1. call[c].at = "settle" /\ UNCHANGED <<worlds, file, stopping>>
  BY DEF Settle, Ask, At
<1>2. CASE Hears(call[c].own)
  <2>1. Turns(c, Asked(c, "settling")) /\ UNCHANGED entry
    BY <1>2 DEF Settle, Ask, Turns, Asked, Shape
  <2>2. Puts(call[c].own, Asking(c, "returnees", call[c].held))
    BY <1>2 DEF Settle, Ask, Puts, Asking, Shape
  <2>. QED BY <1>1, <1>2, <2>1, <2>2 DEF Asks
<1>3. CASE ~Hears(call[c].own)
  BY <1>1, <1>3 DEF Settle, Ask, Ends, Goto, Leaves, Goes, Moves, Turns, Leaving, Going, Shape
<1>. QED BY <1>2, <1>3

\* The join's answer.
LEMMA JoiningIs ==
  ASSUME Shape, NEW c \in Conns, Joining(c)
  PROVE  /\ call[c].at = "joining" /\ UNCHANGED <<worlds, file, stopping>>
         /\ \/ call[c].ans.is = "value" /\ Leaves(c, "in")
            \/ call[c].ans = Dropped /\ Leaves(c, "out")
            \/ call[c].ans = Dropped /\ Goes(c, "forget")
BY DEF Joining, Ends, Goto, GotoWith, Quiet, Answered, Failed, TimesOut, Value, Leaves, Goes, Moves, Turns, Leaving, Going, Shape, At

\* The count's answer.
LEMMA CountingIs ==
  ASSUME Shape, NEW c \in Conns, Counting(c)
  PROVE  /\ call[c].at = "counting" /\ UNCHANGED <<worlds, file, stopping>>
         /\ \/ call[c].ans.is = "value" /\ Moves(c, [call[c] EXCEPT !.at = "recheck", !.want = Want(call[c].ans.value)]) /\ UNCHANGED entry
            \/ (call[c].ans = Dropped \/ (~case.prompt /\ call[c].ans = Waiting)) /\ Leaves(c, "out")
            \/ (call[c].ans = Dropped \/ (~case.prompt /\ call[c].ans = Waiting)) /\ Goes(c, "stale")
BY DEF Counting, Ends, Goto, GotoWith, Quiet, Answered, Failed, TimesOut, Value, Leaves, Goes, Moves, Turns, Leaving, Going, Shape, At

\* The migrants' answer.
LEMMA ExtractingIs ==
  ASSUME Shape, NEW c \in Conns, Extracting(c)
  PROVE  /\ call[c].at = "extracting" /\ UNCHANGED <<worlds, file, stopping>>
         /\ \/ call[c].ans = Ungraduated /\ Leaves(c, "out")
            \/ call[c].ans = Ungraduated /\ Goes(c, "enter")
            \/ call[c].ans.is = "value" /\ UNCHANGED entry
               /\ Moves(c, [call[c] EXCEPT !.at = IF call[c].ans.value = {} THEN "enter" ELSE "inject", !.held = call[c].ans.value])
            \/ (call[c].ans = Dropped \/ (~case.prompt /\ call[c].ans = Waiting)) /\ Leaves(c, "out")
BY DEF Extracting, Ends, Goto, GotoWith, Quiet, Answered, Failed, TimesOut, Value, Leaves, Goes, Moves, Turns, Leaving, Going, Shape, At

\* The central join's answer.
LEMMA EnteringIs ==
  ASSUME Shape, NEW c \in Conns, Entering(c)
  PROVE  /\ call[c].at = "entering" /\ UNCHANGED <<worlds, file, stopping>>
         /\ \/ call[c].ans.is = "value" /\ Leaves(c, "in")
            \/ call[c].ans = Dropped /\ Leaves(c, "out")
BY DEF Entering, Ends, Goto, GotoWith, Quiet, Answered, Failed, TimesOut, Value, Leaves, Goes, Moves, Turns, Leaving, Going, Shape, At

\* The settlers' answer.
LEMMA FetchingIs ==
  ASSUME Shape, NEW c \in Conns, Fetching(c)
  PROVE  /\ call[c].at = "fetching" /\ UNCHANGED <<worlds, file, stopping>>
         /\ \/ call[c].ans.is = "value" /\ UNCHANGED entry
               /\ Moves(c, [call[c] EXCEPT !.at = IF call[c].ans.value = {} THEN "join" ELSE "settle", !.held = call[c].ans.value])
            \/ (call[c].ans = Dropped \/ (~case.prompt /\ call[c].ans = Waiting)) /\ Goes(c, "join")
BY DEF Fetching, Ends, Goto, GotoWith, Quiet, Answered, Failed, TimesOut, Value, Leaves, Goes, Moves, Turns, Leaving, Going, Shape, At

\* How many found room.
LEMMA SettlingIs ==
  ASSUME Shape, NEW c \in Conns, Settling(c)
  PROVE  /\ call[c].at = "settling" /\ UNCHANGED <<worlds, file, stopping, entry>>
         /\ \/ call[c].ans.is = "value" \/ (call[c].ans = Dropped \/ (~case.prompt /\ call[c].ans = Waiting))
         /\ \E rest \in {Leftover(call[c].held, IF call[c].ans.is = "value" THEN call[c].ans.value ELSE 0)} :
              Moves(c, [call[c] EXCEPT !.at = IF rest = {} THEN "join" ELSE "putback", !.held = rest])
BY DEF Settling, Ends, Goto, GotoWith, Quiet, Answered, Failed, TimesOut, Value, Leaves, Goes, Moves, Turns, Leaving, Going, Shape, At

\* The central world, if it runs.
LEMMA FindIs ==
  ASSUME Shape, NEW c \in Conns, Find(c)
  PROVE  /\ call[c].at = "find" /\ UNCHANGED <<worlds, file, stopping, entry>>
         /\ \/ Central \in DOMAIN worlds /\ Moves(c, [call[c] EXCEPT !.at = "fetch", !.cen = worlds[Central]])
            \/ Goes(c, "join")
BY DEF Find, Ends, Goto, GotoWith, Quiet, Answered, Failed, TimesOut, Value, Leaves, Goes, Moves, Turns, Leaving, Going, Shape, At

\* A stale personal world's entry goes.
LEMMA ForgetOwnIs ==
  ASSUME Shape, NEW c \in Conns, ForgetOwn(c)
  PROVE  /\ call[c].at = "forget" /\ UNCHANGED <<file, stopping>> /\ Goes(c, "again")
         /\ worlds' = Restrict(worlds, DOMAIN worlds \ {Me(c)})
BY DEF ForgetOwn, Forget, Ends, Goto, GotoWith, Quiet, Answered, Failed, TimesOut, Value, Leaves, Goes, Moves, Turns, Leaving, Going, Shape, At

\* A stale central world's entry goes.
LEMMA StaleIs ==
  ASSUME Shape, NEW c \in Conns, Stale(c)
  PROVE  /\ call[c].at = "stale" /\ UNCHANGED <<file, stopping, entry>>
         /\ Moves(c, [call[c] EXCEPT !.at = "cen", !.retry = TRUE])
         /\ worlds' = Restrict(worlds, DOMAIN worlds \ {Central})
BY DEF Stale, Ends, Goto, GotoWith, Quiet, Answered, Failed, TimesOut, Value, Leaves, Goes, Moves, Turns, Leaving, Going, Shape, At

\* Sending the migrants.
LEMMA InjectIs ==
  ASSUME Shape, NEW c \in Conns, Inject(c)
  PROVE  /\ call[c].at = "inject" /\ UNCHANGED <<worlds, file, stopping>>
         /\ \/ /\ Hears(call[c].cen) /\ Puts(call[c].cen, Telling(c, call[c].held)) /\ UNCHANGED entry
               /\ Turns(c, [call[c] EXCEPT !.at = "enter", !.held = {}])
            \/ ~Hears(call[c].cen) /\ Leaves(c, "out")
<1>1. CASE Hears(call[c].cen)
  <2>1. Turns(c, [call[c] EXCEPT !.at = "enter", !.held = {}])
    BY <1>1 DEF Inject, GotoWith, Turns, Shape
  <2>2. Puts(call[c].cen, Telling(c, call[c].held))
    BY <1>1 DEF Inject, Tell, Puts, Telling, Shape
  <2>. QED BY <1>1, <2>1, <2>2 DEF Inject, At
<1>2. CASE ~Hears(call[c].cen)
  BY <1>2 DEF Inject, Tell, Ends, Goto, GotoWith, Quiet, Answered, Failed, TimesOut, Value, Leaves, Goes, Moves, Turns, Leaving, Going, Shape, At
<1>. QED BY <1>1, <1>2

\* Sending those back who found no room.
LEMMA PutBackIs ==
  ASSUME Shape, NEW c \in Conns, PutBack(c)
  PROVE  /\ call[c].at = "putback" /\ UNCHANGED <<worlds, file, stopping, entry>>
         /\ Turns(c, [call[c] EXCEPT !.at = "join", !.held = {}])
         /\ \/ Hears(call[c].cen) /\ Puts(call[c].cen, Telling(c, call[c].held))
            \/ ~Hears(call[c].cen) /\ UNCHANGED thread
<1>1. Turns(c, [call[c] EXCEPT !.at = "join", !.held = {}])
  BY DEF PutBack, GotoWith, Turns, Shape
<1>2. CASE Hears(call[c].cen)
  <2>1. Puts(call[c].cen, Telling(c, call[c].held))
    BY <1>2 DEF PutBack, Tell, Puts, Telling, Shape
  <2>. QED BY <1>1, <1>2, <2>1 DEF PutBack, At
<1>3. CASE ~Hears(call[c].cen)
  BY <1>1, <1>3 DEF PutBack, Tell, At
<1>. QED BY <1>2, <1>3

-----------------------------------------------------------------------------
(* What is always so *)

In(q, x) == \E i \in 1..Len(q) : q[i] = x

\* Who may live in the world of a key.
Fits(k, S) ==
  /\ S \subseteq Settlers
  /\ k \in Accounts => S \subseteq Born[k]
  /\ k = Central => \A a \in Accounts : Cardinality(Owned(a, S)) <= GroupCap

\* A message is where its kind belongs, and carries settlers of its sender's account.
Rightly(m, k) ==
  /\ m.kind \in {"count", "settlers", "inject"} => k = Central
  /\ m.kind \in {"extract", "returnees"} => k = Me(m.from)
  /\ m.kind \in {"inject", "returnees"} => m.arg \subseteq Born[Me(m.from)]
  /\ m.kind = "extract" => m.arg \in Nat
  /\ m.kind = "inject" <=> m.seq = 0

\* What a call that waits at a place has asked for.
KindOf(place) ==
  CASE place \in {"joining", "entering"} -> "join" [] place = "counting" -> "count"
    [] place = "extracting" -> "extract" [] place = "fetching" -> "settlers" [] place = "settling" -> "returnees"

\* A message with the number of a wait is what that wait is for.
Numbered(m, r) ==
  /\ m.seq <= r.seq
  /\ m.seq = r.seq /\ r.at \in WaitingPlaces => m.kind = KindOf(r.at)

\* Where a call still has its aim to follow.
Aimed == {"lock", "own", "cen", "count", "counting", "stale", "recheck"}

\* What a call carries is of its account, and what it was answered is what it asked for.
Carries(c, r) ==
  /\ r.held \subseteq Born[Me(c)] /\ r.want <= GroupCap
  /\ r.at \in Aimed => r.goal # "none"
  /\ r.at \in WaitingPlaces => r.seq > 0
  /\ r.at \in {"extracting", "fetching"} /\ r.ans.is = "value" => r.ans.value \subseteq Born[Me(c)]
  /\ r.at \in {"counting", "settling"} /\ r.ans.is = "value" => r.ans.value \in Nat

\* The senders a call has are those of the worlds it is about.
OwnPlaces == {"join", "joining", "extract", "extracting", "find", "fetch", "fetching", "settle", "settling", "putback"}
CenPlaces == {"count", "counting", "extract", "extracting", "inject", "enter", "entering",
              "fetch", "fetching", "settle", "settling", "putback"}
Points(th, c, r) ==
  /\ r.at \in OwnPlaces => Runs(th, r.own, Me(c))
  /\ r.at \in CenPlaces \/ (r.at = "own" /\ r.goal = "central") => Runs(th, r.cen, Central)

Lodged   == \A t \in 1..Len(thread) : Fits(thread[t].key, thread[t].people)
Lettered == \A t \in 1..Len(thread) : \A m : In(thread[t].inbox, m) =>
              Rightly(m, thread[t].key) /\ Numbered(m, call[m.from])
Saved    == \A k \in Keys : Fits(k, file[k])
Calling  == \A c \in Conns : Carries(c, call[c]) /\ Points(thread, c, call[c])

Always == Shape /\ Lodged /\ Lettered /\ Saved /\ Calling

-----------------------------------------------------------------------------
(* Queues *)

\* A message at the end of a queue.
LEMMA InAppend ==
  ASSUME NEW q \in Seq(Message), NEW m \in Message
  PROVE  Append(q, m) \in Seq(Message) /\ \A x : In(Append(q, m), x) <=> In(q, x) \/ x = m
<1>1. Append(q, m) \in Seq(Message) /\ Len(Append(q, m)) = Len(q) + 1 /\ Len(q) \in Nat
  OBVIOUS
<1>2. Append(q, m)[Len(q) + 1] = m /\ \A i \in 1..Len(q) : Append(q, m)[i] = q[i]
  OBVIOUS
<1>3. \A i : i \in 1..(Len(q) + 1) <=> i \in 1..Len(q) \/ i = Len(q) + 1
  BY <1>1
<1>4. ASSUME NEW x PROVE In(Append(q, m), x) <=> In(q, x) \/ x = m
  BY <1>1, <1>2, <1>3 DEF In
<1>. QED BY <1>1, <1>4

\* A queue whose first message is taken.
LEMMA InTail ==
  ASSUME NEW q \in Seq(Message), q # <<>>
  PROVE  /\ Tail(q) \in Seq(Message) /\ Head(q) \in Message /\ In(q, Head(q))
         /\ \A x : In(Tail(q), x) => In(q, x)
<1>1. Tail(q) \in Seq(Message) /\ Len(Tail(q)) = Len(q) - 1 /\ Len(q) \in Nat /\ Len(q) > 0 /\ Head(q) = q[1]
  OBVIOUS
<1>2. \A i \in 1..Len(Tail(q)) : Tail(q)[i] = q[i + 1]
  OBVIOUS
<1>3. \A i \in 1..(Len(q) - 1) : i + 1 \in 1..Len(q)
  BY <1>1
<1>4. 1 \in 1..Len(q)
  BY <1>1
<1>5. \A x : In(Tail(q), x) => In(q, x)
  BY <1>1, <1>2, <1>3 DEF In
<1>6. Head(q) \in Message /\ In(q, Head(q))
  BY <1>1, <1>4 DEF In
<1>. QED BY <1>1, <1>5, <1>6

\* An empty queue.
LEMMA InNone == <<>> \in Seq(Message) /\ \A x : ~In(<<>>, x)
<1>1. Len(<<>>) = 0 /\ <<>> \in Seq(Message)
  OBVIOUS
<1>. QED BY <1>1 DEF In

-----------------------------------------------------------------------------
(* Threads *)

\* A new one is the last.
LEMMA Starting ==
  ASSUME Shape, NEW k \in Keys, thread' = Append(thread, Fresh(k))
  PROVE  /\ thread' \in Seq(Thread) /\ Len(thread) \in Nat /\ Len(thread') = Len(thread) + 1
         /\ \A t \in 1..Len(thread) : t \in 1..Len(thread') /\ thread'[t] = thread[t]
         /\ Len(thread) + 1 \in 1..Len(thread') /\ thread'[Len(thread) + 1] = Fresh(k)
         /\ \A t \in 1..Len(thread') : t \in 1..Len(thread) \/ t = Len(thread) + 1
<1>1. Fresh(k) \in Thread
  BY InNone DEF Fresh, Thread, Sts
<1>2. thread' \in Seq(Thread) /\ Len(thread) \in Nat /\ Len(thread') = Len(thread) + 1
  BY <1>1 DEF Shape
<1>3. thread'[Len(thread) + 1] = Fresh(k) /\ \A t \in 1..Len(thread) : thread'[t] = thread[t]
  BY <1>1 DEF Shape
<1>. QED BY <1>2, <1>3

\* A change of one concerns no other.
LEMMA Setting ==
  ASSUME Shape, NEW t \in 1..Len(thread), NEW r \in Thread, thread' = [thread EXCEPT ![t] = r]
  PROVE  /\ thread' \in Seq(Thread) /\ Len(thread') = Len(thread) /\ thread'[t] = r
         /\ \A u \in 1..Len(thread) : u # t => thread'[u] = thread[u]
BY DEF Shape

\* Putting a message into an inbox.
LEMMA Putting ==
  ASSUME Shape, NEW t \in 1..Len(thread), NEW m \in Message, Puts(t, m)
  PROVE  /\ thread' \in Seq(Thread) /\ Len(thread') = Len(thread)
         /\ thread'[t] = [thread[t] EXCEPT !.inbox = Append(thread[t].inbox, m)]
         /\ \A u \in 1..Len(thread) :
              /\ u # t => thread'[u] = thread[u]
              /\ thread'[u].key = thread[u].key /\ thread'[u].st = thread[u].st
              /\ thread'[u].flag = thread[u].flag /\ thread'[u].people = thread[u].people
         /\ \A x : In(thread'[t].inbox, x) <=> In(thread[t].inbox, x) \/ x = m
<1>1. thread[t] \in Thread
  BY DEF Shape
<1>2. thread[t].inbox \in Seq(Message)
  BY <1>1 DEF Thread
<1>3. Append(thread[t].inbox, m) \in Seq(Message) /\ \A x : In(Append(thread[t].inbox, m), x) <=> In(thread[t].inbox, x) \/ x = m
  BY <1>2, InAppend
<1> DEFINE r == [thread[t] EXCEPT !.inbox = Append(thread[t].inbox, m)]
<1>4. /\ r \in Thread /\ r.inbox = Append(thread[t].inbox, m)
      /\ r.key = thread[t].key /\ r.st = thread[t].st /\ r.flag = thread[t].flag /\ r.people = thread[t].people
  BY <1>1, <1>3 DEF Thread
<1>5. thread' = [thread EXCEPT ![t] = r]
  BY DEF Puts
<1>6. thread'[t] = r
  BY <1>4, <1>5, Setting
<1> HIDE DEF r
<1>7. /\ thread' \in Seq(Thread) /\ Len(thread') = Len(thread) /\ thread'[t] = r
      /\ \A u \in 1..Len(thread) : u # t => thread'[u] = thread[u]
  BY <1>4, <1>5, Setting
<1>8. \A x : In(thread'[t].inbox, x) <=> In(thread[t].inbox, x) \/ x = m
  BY <1>3, <1>4, <1>7
<1>. QED BY <1>4, <1>7, <1>8 DEF r

\* A call that turns concerns no other.
LEMMA Turning ==
  ASSUME Shape, NEW c \in Conns, NEW r \in Call, Turns(c, r)
  PROVE  call' \in [Conns -> Call] /\ call'[c] = r /\ \A d \in Conns : d # c => call'[d] = call[d]
BY DEF Shape, Turns

-----------------------------------------------------------------------------
(* A step of a call keeps what is always so *)

Later(c, r) == r.seq >= call[c].seq /\ (r.at \in WaitingPlaces => r.seq > call[c].seq)

\* What is in an inbox is a message, and came from a call.
LEMMA InMessage ==
  ASSUME Shape, NEW t \in 1..Len(thread), NEW m, In(thread[t].inbox, m)
  PROVE  m \in Message /\ m.from \in Conns /\ m.seq \in Nat /\ m.kind \in Kinds
<1>1. thread[t] \in Thread
  BY DEF Shape
<1>2. thread[t].inbox \in Seq(Message)
  BY <1>1 DEF Thread
<1>3. m \in Message
  BY <1>2 DEF In
<1>. QED BY <1>3 DEF Message

\* A number that only grows leaves older messages older.
LEMMA OldMail ==
  ASSUME Always, NEW c \in Conns, NEW r \in Call, Turns(c, r), Later(c, r),
         NEW t \in 1..Len(thread), NEW m, In(thread[t].inbox, m)
  PROVE  Numbered(m, call'[m.from])
<1>1. m.from \in Conns /\ m.seq \in Nat /\ Numbered(m, call[m.from])
  BY InMessage DEF Always, Lettered
<1>2. CASE m.from # c
  <2>1. call'[m.from] = call[m.from]
    BY <1>1, <1>2, Turning DEF Always
  <2>. QED BY <1>1, <2>1
<1>3. CASE m.from = c
  <2>1. call'[m.from] = r /\ r.seq \in Nat /\ call[c].seq \in Nat
    BY <1>3, Turning DEF Always, Shape, Call
  <2>2. m.seq <= call[c].seq
    BY <1>1, <1>3 DEF Numbered
  <2>. QED BY <1>1, <2>1, <2>2 DEF Numbered, Later
<1>. QED BY <1>2, <1>3

\* What a call points at is still there when threads are added.
LEMMA StillPoints ==
  ASSUME NEW th, NEW u, \A t \in 1..Len(th) : t \in 1..Len(u) /\ u[t].key = th[t].key,
         NEW c, NEW r, Points(th, c, r)
  PROVE  Points(u, c, r)
BY DEF Points, Runs

Found == \A k \in DOMAIN worlds : k \in Keys /\ Runs(thread, worlds[k], k)

\* A call that goes on, in the worlds there are or with one started for it.
LEMMA TurnKeeps ==
  ASSUME Always, NEW c \in Conns, NEW r \in Call, Turns(c, r), Later(c, r), Carries(c, r), Points(thread', c, r),
         thread' = thread \/ \E k \in Keys : thread' = Append(thread, Fresh(k)),
         Found', UNCHANGED <<file, case, stopping>>
  PROVE  Always'
<1>1. Shape /\ Lodged /\ Lettered /\ Saved /\ Calling
  BY DEF Always
<1>2. /\ thread' \in Seq(Thread)
      /\ \A t \in 1..Len(thread) : t \in 1..Len(thread') /\ thread'[t] = thread[t]
      /\ \A t \in 1..Len(thread') : t \in 1..Len(thread) \/ \E k \in Keys : thread'[t] = Fresh(k)
  <2>1. CASE thread' = thread
    BY <1>1, <2>1 DEF Shape
  <2>2. CASE \E k \in Keys : thread' = Append(thread, Fresh(k))
    <3>1. PICK k \in Keys : thread' = Append(thread, Fresh(k))
      BY <2>2
    <3>. QED BY <1>1, <3>1, Starting
  <2>. QED BY <2>1, <2>2
<1>3. call' \in [Conns -> Call] /\ call'[c] = r /\ \A d \in Conns : d # c => call'[d] = call[d]
  BY <1>1, Turning
<1>4. Shape'
  BY <1>1, <1>2, <1>3 DEF Shape, Found
<1>5. \A k \in Keys : Fits(Fresh(k).key, Fresh(k).people) /\ \A m : ~In(Fresh(k).inbox, m)
  <2> SUFFICES ASSUME NEW k \in Keys PROVE Fits(Fresh(k).key, Fresh(k).people) /\ \A m : ~In(Fresh(k).inbox, m)
    OBVIOUS
  <2>1. Fresh(k).key = k /\ Fresh(k).people = {} /\ Fresh(k).inbox = <<>>
    BY DEF Fresh
  <2>2. \A a : Owned(a, {}) = {}
    BY DEF Owned
  <2>3. Cardinality({}) = 0 /\ GroupCap \in Nat /\ 0 <= GroupCap
    BY FS_EmptySet, ManagerAssumption
  <2>4. Fits(k, {})
    BY <2>2, <2>3 DEF Fits
  <2>5. \A m : ~In(<<>>, m)
    BY InNone
  <2>. QED BY <2>1, <2>4, <2>5
<1>6. Lodged'
  BY <1>1, <1>2, <1>5 DEF Lodged
<1>7. Lettered'
  <2> SUFFICES ASSUME NEW t \in 1..Len(thread'), NEW m, In(thread'[t].inbox, m)
               PROVE  Rightly(m, thread'[t].key) /\ Numbered(m, call'[m.from])
    BY DEF Lettered
  <2>1. t \in 1..Len(thread) /\ thread'[t] = thread[t] /\ In(thread[t].inbox, m)
    BY <1>2, <1>5
  <2>2. Numbered(m, call'[m.from])
    BY <2>1, OldMail
  <2>. QED BY <1>1, <2>1, <2>2 DEF Lettered
<1>8. Saved'
  BY <1>1 DEF Saved
<1>9. Calling'
  <2> SUFFICES ASSUME NEW d \in Conns PROVE Carries(d, call'[d]) /\ Points(thread', d, call'[d])
    BY DEF Calling
  <2>1. CASE d = c
    BY <1>3, <2>1
  <2>2. CASE d # c
    <3>1. call'[d] = call[d] /\ Carries(d, call[d]) /\ Points(thread, d, call[d])
      BY <1>1, <1>3, <2>2 DEF Calling
    <3>2. Points(thread', d, call[d])
      BY <1>2, <3>1, StillPoints
    <3>. QED BY <3>1, <3>2
  <2>. QED BY <2>1, <2>2
<1>. QED BY <1>4, <1>6, <1>7, <1>8, <1>9 DEF Always

\* A call that puts a message into an inbox.
LEMMA PutKeeps ==
  ASSUME Always, NEW c \in Conns, NEW r \in Call, Turns(c, r), Later(c, r), Carries(c, r), Points(thread, c, r),
         NEW t \in 1..Len(thread), NEW m \in Message, Puts(t, m), Rightly(m, thread[t].key),
         m.from = c, Numbered(m, r), UNCHANGED <<worlds, file, case, stopping>>
  PROVE  Always'
<1>1. Shape /\ Lodged /\ Lettered /\ Saved /\ Calling
  BY DEF Always
<1>2. /\ thread' \in Seq(Thread) /\ Len(thread') = Len(thread)
      /\ \A u \in 1..Len(thread) : /\ u # t => thread'[u] = thread[u]
                                   /\ thread'[u].key = thread[u].key /\ thread'[u].people = thread[u].people
      /\ \A x : In(thread'[t].inbox, x) <=> In(thread[t].inbox, x) \/ x = m
  BY <1>1, Putting
<1>3. call' \in [Conns -> Call] /\ call'[c] = r /\ \A d \in Conns : d # c => call'[d] = call[d]
  BY <1>1, Turning
<1>4. Shape'
  BY <1>1, <1>2, <1>3 DEF Shape, Runs
<1>5. Lodged'
  BY <1>1, <1>2 DEF Lodged
<1>6. Lettered'
  <2> SUFFICES ASSUME NEW u \in 1..Len(thread), NEW x, In(thread'[u].inbox, x)
               PROVE  Rightly(x, thread[u].key) /\ Numbered(x, call'[x.from])
    BY <1>2 DEF Lettered
  <2>1. CASE In(thread[u].inbox, x)
    BY <1>1, <2>1, OldMail DEF Lettered
  <2>2. CASE ~In(thread[u].inbox, x)
    <3>1. u = t /\ x = m
      BY <1>2, <2>2
    <3>. QED BY <1>3, <3>1
  <2>. QED BY <2>1, <2>2
<1>7. Saved'
  BY <1>1 DEF Saved
<1>8. Calling'
  <2> SUFFICES ASSUME NEW d \in Conns PROVE Carries(d, call'[d]) /\ Points(thread', d, call'[d])
    BY DEF Calling
  <2>1. Carries(d, call'[d]) /\ Points(thread, d, call'[d])
    BY <1>1, <1>3 DEF Calling
  <2>. QED BY <1>2, <2>1, StillPoints
<1>. QED BY <1>4, <1>5, <1>6, <1>7, <1>8 DEF Always

-----------------------------------------------------------------------------
(* Each step of a call keeps it *)

\* A call knows what it is.
LEMMA Knows ==
  ASSUME Always, NEW c \in Conns
  PROVE  /\ call[c] \in Call /\ call[c].seq \in Nat /\ Carries(c, call[c]) /\ Points(thread, c, call[c])
         /\ Me(c) \in Accounts /\ Me(c) \in Keys /\ Central \in Keys /\ Me(c) # Central /\ GroupCap \in Nat
         /\ Found /\ \A k \in DOMAIN worlds : worlds[k] \in 1..Len(thread) /\ worlds[k] \in Nat
<1>1. call[c] \in Call /\ Carries(c, call[c]) /\ Points(thread, c, call[c]) /\ Found
  BY DEF Always, Shape, Calling, Found
<1>2. Me(c) \in Accounts /\ Me(c) \in Keys /\ Central \in Keys /\ Me(c) # Central /\ GroupCap \in Nat
  BY ManagerAssumption DEF Me, Keys
<1>3. \A k \in DOMAIN worlds : worlds[k] \in 1..Len(thread) /\ worlds[k] \in Nat
  BY <1>1 DEF Found, Runs
<1>. QED BY <1>1, <1>2, <1>3 DEF Call

\* A call that ends carries nothing.
LEMMA LeaveKeeps ==
  ASSUME Always, NEW c \in Conns, NEW place \in {"out", "in"}, Moves(c, Leaving(c, place)),
         UNCHANGED <<worlds, file, case, stopping>>
  PROVE  Always'
<1> DEFINE r == Leaving(c, place)
<1>1. /\ r \in Call /\ r.at = place /\ r.seq = call[c].seq /\ r.held = {} /\ r.want = 0 /\ r.goal = "none"
      /\ r.ans = Waiting
  BY Knows DEF Leaving, Outside, Call, Places, Goals, Answers
<1>2. Later(c, r) /\ Carries(c, r) /\ Points(thread, c, r)
  BY <1>1, Knows DEF Later, Carries, Points, WaitingPlaces, OwnPlaces, CenPlaces, Aimed
<1>3. Turns(c, r) /\ UNCHANGED thread /\ Found'
  BY Knows DEF Moves, Found
<1> HIDE DEF r
<1>. QED BY <1>1, <1>2, <1>3, TurnKeeps

\* A call that only goes on to another place.
LEMMA GoKeeps ==
  ASSUME Always, NEW c \in Conns, NEW place \in Places \ (WaitingPlaces \cup {"own", "lock"}), Moves(c, Going(c, place)),
         place \in Aimed => call[c].at \in Aimed, place \in OwnPlaces => call[c].at \in OwnPlaces,
         place \in CenPlaces => call[c].at \in CenPlaces \/ (call[c].at = "own" /\ call[c].goal = "central"),
         Found', UNCHANGED <<file, case, stopping>>
  PROVE  Always'
<1> DEFINE r == Going(c, place)
<1>1. /\ r \in Call /\ r.at = place /\ r.seq = call[c].seq /\ r.held = call[c].held /\ r.want = call[c].want
      /\ r.goal = call[c].goal /\ r.own = call[c].own /\ r.cen = call[c].cen /\ r.ans = call[c].ans
  BY Knows DEF Going, Call
<1>2. Later(c, r) /\ Carries(c, r) /\ Points(thread, c, r)
  BY <1>1, Knows DEF Later, Carries, Points, WaitingPlaces
<1>3. Turns(c, r) /\ UNCHANGED thread
  BY DEF Moves
<1> HIDE DEF r
<1>. QED BY <1>1, <1>2, <1>3, TurnKeeps

\* A call that asks.
LEMMA AskKeeps ==
  ASSUME Always, NEW c \in Conns, NEW t, Runs(thread, t, thread[t].key), NEW kind \in Kinds, NEW arg \in Nat \cup SUBSET Settlers,
         NEW place \in WaitingPlaces, Asks(c, t, kind, arg, place), kind = KindOf(place), kind # "inject",
         kind \in {"count", "settlers"} => thread[t].key = Central,
         kind \in {"extract", "returnees"} => thread[t].key = Me(c),
         kind = "returnees" => arg = call[c].held,
         kind = "extract" => arg \in Nat,
         place \in Aimed => call[c].at \in Aimed, place \in OwnPlaces => call[c].at \in OwnPlaces,
         place \in CenPlaces => call[c].at \in CenPlaces,
         UNCHANGED <<worlds, file, case, stopping>>
  PROVE  Always'
<1> DEFINE r == Asked(c, place)
           m == Asking(c, kind, arg)
<1>1. /\ r \in Call /\ r.at = place /\ r.seq = call[c].seq + 1 /\ r.held = call[c].held /\ r.want = call[c].want
      /\ r.goal = call[c].goal /\ r.own = call[c].own /\ r.cen = call[c].cen /\ r.ans = Waiting
  <2>1. Waiting \in Answers /\ place \in Places /\ call[c].seq + 1 \in Nat /\ call[c] \in Call
    BY Knows DEF Answers, Places
  <2>. QED BY <2>1 DEF Asked, Call
<1>2. m \in Message /\ m.kind = kind /\ m.from = c /\ m.arg = arg /\ m.seq = call[c].seq + 1 /\ m.seq # 0
  BY Knows DEF Asking, Message
<1>3. Later(c, r) /\ Numbered(m, r) /\ r.seq > 0
  BY <1>1, <1>2, Knows DEF Later, Numbered
<1>4. Carries(c, r) /\ Points(thread, c, r)
  BY <1>1, <1>3, Knows DEF Carries, Points, WaitingPlaces, Waiting
<1>5. Rightly(m, thread[t].key)
  BY <1>2, Knows DEF Rightly, Carries
<1>6. Turns(c, r) /\ Puts(t, m) /\ t \in 1..Len(thread)
  BY DEF Asks, Runs
<1> HIDE DEF r, m
<1>. QED BY <1>1, <1>2, <1>3, <1>4, <1>5, <1>6, PutKeeps

\* A call that finds a world, or starts it.
LEMMA ResolveKeeps ==
  ASSUME Always, NEW c \in Conns, NEW k \in Keys, NEW r \in Call,
         r.seq = call[c].seq, r.at \notin WaitingPlaces, Carries(c, r), Points(thread', c, r),
         Finds(c, k, r) \/ Starts(c, k, r), UNCHANGED <<file, case, stopping>>
  PROVE  Always'
<1>1. Later(c, r)
  BY Knows DEF Later
<1>2. CASE Finds(c, k, r)
  BY <1>1, <1>2, Knows, TurnKeeps DEF Finds, Moves, Found
<1>3. CASE Starts(c, k, r)
  <2>1. Turns(c, r) /\ thread' = Append(thread, Fresh(k))
    BY <1>3 DEF Starts
  <2>2. Found'
    <3>1. /\ \A t \in 1..Len(thread) : t \in 1..Len(thread') /\ thread'[t] = thread[t]
          /\ Len(thread) + 1 \in 1..Len(thread') /\ thread'[Len(thread) + 1].key = k
      BY <2>1, Starting DEF Always, Fresh
    <3>2. /\ DOMAIN worlds' = DOMAIN worlds \cup {k}
          /\ \A x \in DOMAIN worlds' : worlds'[x] = IF x = k THEN Len(thread) + 1 ELSE worlds[x]
      BY <1>3 DEF Starts
    <3>3. Found
      BY Knows
    <3>. QED BY <3>1, <3>2, <3>3 DEF Found, Runs
  <2>. QED BY <1>1, <2>1, <2>2, TurnKeeps
<1>. QED BY <1>2, <1>3

\* The thread that was found or started runs the world.
LEMMA Resolved ==
  ASSUME Always, NEW c \in Conns, NEW k \in Keys, NEW r
  PROVE  /\ Finds(c, k, r) => Runs(thread', worlds[k], k) /\ worlds[k] \in Nat
         /\ Starts(c, k, r) => Runs(thread', Len(thread) + 1, k) /\ Len(thread) + 1 \in Nat
         /\ Finds(c, k, r) \/ Starts(c, k, r) =>
              \A t \in 1..Len(thread) : t \in 1..Len(thread') /\ thread'[t].key = thread[t].key
<1>1. CASE Finds(c, k, r)
  <2>1. thread' = thread /\ k \in DOMAIN worlds
    BY <1>1 DEF Finds, Moves
  <2>2. ~Starts(c, k, r)
    BY <2>1 DEF Starts
  <2>. QED BY <2>1, <2>2, Knows DEF Found
<1>2. CASE Starts(c, k, r)
  <2>1. thread' = Append(thread, Fresh(k)) /\ k \notin DOMAIN worlds
    BY <1>2 DEF Starts
  <2>2. ~Finds(c, k, r)
    BY <2>1 DEF Finds
  <2>. QED BY <2>1, <2>2, Starting DEF Always, Runs, Fresh
<1>. QED BY <1>1, <1>2

\* The lock.
LEMMA LockKeeps == ASSUME Always, NEW c \in Conns, Lock(c), UNCHANGED case PROVE Always'
<1>1. Moves(c, Going(c, IF call[c].goal = "central" THEN "cen" ELSE "own")) /\ call[c].at = "lock" /\ UNCHANGED <<worlds, file, stopping>>
  BY LockIs DEF Always
<1>2. Carries(c, call[c]) /\ call[c] \in Call /\ Points(thread, c, call[c]) /\ Found /\ call[c].seq \in Nat
  BY Knows
<1> DEFINE r == Going(c, IF call[c].goal = "central" THEN "cen" ELSE "own")
<1>3. /\ r \in Call /\ r.at = (IF call[c].goal = "central" THEN "cen" ELSE "own") /\ r.seq = call[c].seq
      /\ r.held = call[c].held /\ r.want = call[c].want /\ r.goal = call[c].goal
  BY <1>2 DEF Going, Call, Places
<1>4. Later(c, r) /\ Carries(c, r) /\ Points(thread, c, r)
  BY <1>1, <1>2, <1>3 DEF Later, Carries, Points, WaitingPlaces, OwnPlaces, CenPlaces, Aimed
<1>5. Turns(c, r) /\ UNCHANGED thread /\ Found'
  BY <1>1, <1>2 DEF Moves, Found
<1> HIDE DEF r
<1>. QED BY <1>1, <1>3, <1>4, <1>5, TurnKeeps

\* The personal world.
LEMMA OwnKeeps == ASSUME Always, NEW c \in Conns, Own(c), UNCHANGED case PROVE Always'
<1>1. /\ call[c].at = "own" /\ UNCHANGED <<file, stopping>>
      /\ \/ Leaves(c, "out") /\ UNCHANGED worlds
         \/ Finds(c, Me(c), [call[c] EXCEPT !.at = (CASE call[c].goal = "login" -> "join" [] call[c].goal = "central" -> "extract" [] call[c].goal = "home" -> "find"), !.own = worlds[Me(c)]])
         \/ Starts(c, Me(c), [call[c] EXCEPT !.at = (CASE call[c].goal = "login" -> "join" [] call[c].goal = "central" -> "extract" [] call[c].goal = "home" -> "find"), !.own = (Len(thread) + 1)])
  BY OwnIs DEF Always
<1>2. Carries(c, call[c]) /\ call[c] \in Call /\ Points(thread, c, call[c]) /\ Me(c) \in Keys
  BY Knows
<1>3. CASE Leaves(c, "out") /\ UNCHANGED worlds
  BY <1>1, <1>3, LeaveKeeps DEF Leaves
<1>4. CASE Finds(c, Me(c), [call[c] EXCEPT !.at = (CASE call[c].goal = "login" -> "join" [] call[c].goal = "central" -> "extract" [] call[c].goal = "home" -> "find"), !.own = worlds[Me(c)]])
  <2> DEFINE r == [call[c] EXCEPT !.at = (CASE call[c].goal = "login" -> "join" [] call[c].goal = "central" -> "extract" [] call[c].goal = "home" -> "find"), !.own = worlds[Me(c)]]
  <2>1. /\ Runs(thread', worlds[Me(c)], Me(c)) /\ worlds[Me(c)] \in Nat
        /\ \A t \in 1..Len(thread) : t \in 1..Len(thread') /\ thread'[t].key = thread[t].key
    BY <1>2, <1>4, Resolved
  <2>2. /\ r \in Call /\ r.at = (CASE call[c].goal = "login" -> "join" [] call[c].goal = "central" -> "extract" [] call[c].goal = "home" -> "find") /\ r.seq = call[c].seq /\ r.held = call[c].held /\ r.want = call[c].want
        /\ r.goal = call[c].goal /\ r.own = worlds[Me(c)] /\ r.cen = call[c].cen
    BY <1>1, <1>2, <2>1 DEF Call, Places, Carries, Goals, Aimed
  <2>3. Points(thread', c, call[c])
    BY <1>2, <2>1, StillPoints
  <2>4. Carries(c, r) /\ Points(thread', c, r) /\ r.at \notin WaitingPlaces
    BY <1>1, <1>2, <2>1, <2>2, <2>3 DEF Carries, Points, WaitingPlaces, OwnPlaces, CenPlaces, Call, Goals, Aimed
  <2>5. Finds(c, Me(c), r) /\ UNCHANGED <<file, case, stopping>>
    BY <1>1, <1>4
  <2> HIDE DEF r
  <2>. QED BY <1>2, <2>2, <2>4, <2>5, ResolveKeeps
<1>5. CASE Starts(c, Me(c), [call[c] EXCEPT !.at = (CASE call[c].goal = "login" -> "join" [] call[c].goal = "central" -> "extract" [] call[c].goal = "home" -> "find"), !.own = (Len(thread) + 1)])
  <2> DEFINE r == [call[c] EXCEPT !.at = (CASE call[c].goal = "login" -> "join" [] call[c].goal = "central" -> "extract" [] call[c].goal = "home" -> "find"), !.own = (Len(thread) + 1)]
  <2>1. /\ Runs(thread', (Len(thread) + 1), Me(c)) /\ (Len(thread) + 1) \in Nat
        /\ \A t \in 1..Len(thread) : t \in 1..Len(thread') /\ thread'[t].key = thread[t].key
    BY <1>2, <1>5, Resolved
  <2>2. /\ r \in Call /\ r.at = (CASE call[c].goal = "login" -> "join" [] call[c].goal = "central" -> "extract" [] call[c].goal = "home" -> "find") /\ r.seq = call[c].seq /\ r.held = call[c].held /\ r.want = call[c].want
        /\ r.goal = call[c].goal /\ r.own = (Len(thread) + 1) /\ r.cen = call[c].cen
    BY <1>1, <1>2, <2>1 DEF Call, Places, Carries, Goals, Aimed
  <2>3. Points(thread', c, call[c])
    BY <1>2, <2>1, StillPoints
  <2>4. Carries(c, r) /\ Points(thread', c, r) /\ r.at \notin WaitingPlaces
    BY <1>1, <1>2, <2>1, <2>2, <2>3 DEF Carries, Points, WaitingPlaces, OwnPlaces, CenPlaces, Call, Goals, Aimed
  <2>5. Starts(c, Me(c), r) /\ UNCHANGED <<file, case, stopping>>
    BY <1>1, <1>5
  <2> HIDE DEF r
  <2>. QED BY <1>2, <2>2, <2>4, <2>5, ResolveKeeps
<1>. QED BY <1>1, <1>3, <1>4, <1>5

\* The central world.
LEMMA CenKeeps == ASSUME Always, NEW c \in Conns, Cen(c), UNCHANGED case PROVE Always'
<1>1. /\ call[c].at = "cen" /\ UNCHANGED <<file, stopping>>
      /\ \/ Finds(c, Central, [call[c] EXCEPT !.at = "count", !.cen = worlds[Central]])
         \/ Starts(c, Central, [call[c] EXCEPT !.at = "count", !.cen = (Len(thread) + 1)])
  BY CenIs DEF Always
<1>2. Carries(c, call[c]) /\ call[c] \in Call /\ Points(thread, c, call[c]) /\ Central \in Keys
  BY Knows
<1>3. CASE Finds(c, Central, [call[c] EXCEPT !.at = "count", !.cen = worlds[Central]])
  <2> DEFINE r == [call[c] EXCEPT !.at = "count", !.cen = worlds[Central]]
  <2>1. /\ Runs(thread', worlds[Central], Central) /\ worlds[Central] \in Nat
        /\ \A t \in 1..Len(thread) : t \in 1..Len(thread') /\ thread'[t].key = thread[t].key
    BY <1>2, <1>3, Resolved
  <2>2. /\ r \in Call /\ r.at = "count" /\ r.seq = call[c].seq /\ r.held = call[c].held /\ r.want = call[c].want
        /\ r.goal = call[c].goal /\ r.cen = worlds[Central] /\ r.own = call[c].own
    BY <1>1, <1>2, <2>1 DEF Call, Places, Carries, Goals, Aimed
  <2>3. Points(thread', c, call[c])
    BY <1>2, <2>1, StillPoints
  <2>4. Carries(c, r) /\ Points(thread', c, r) /\ r.at \notin WaitingPlaces
    BY <1>1, <1>2, <2>1, <2>2, <2>3 DEF Carries, Points, WaitingPlaces, OwnPlaces, CenPlaces, Call, Goals, Aimed
  <2>5. Finds(c, Central, r) /\ UNCHANGED <<file, case, stopping>>
    BY <1>1, <1>3
  <2> HIDE DEF r
  <2>. QED BY <1>2, <2>2, <2>4, <2>5, ResolveKeeps
<1>4. CASE Starts(c, Central, [call[c] EXCEPT !.at = "count", !.cen = (Len(thread) + 1)])
  <2> DEFINE r == [call[c] EXCEPT !.at = "count", !.cen = (Len(thread) + 1)]
  <2>1. /\ Runs(thread', (Len(thread) + 1), Central) /\ (Len(thread) + 1) \in Nat
        /\ \A t \in 1..Len(thread) : t \in 1..Len(thread') /\ thread'[t].key = thread[t].key
    BY <1>2, <1>4, Resolved
  <2>2. /\ r \in Call /\ r.at = "count" /\ r.seq = call[c].seq /\ r.held = call[c].held /\ r.want = call[c].want
        /\ r.goal = call[c].goal /\ r.cen = (Len(thread) + 1) /\ r.own = call[c].own
    BY <1>1, <1>2, <2>1 DEF Call, Places, Carries, Goals, Aimed
  <2>3. Points(thread', c, call[c])
    BY <1>2, <2>1, StillPoints
  <2>4. Carries(c, r) /\ Points(thread', c, r) /\ r.at \notin WaitingPlaces
    BY <1>1, <1>2, <2>1, <2>2, <2>3 DEF Carries, Points, WaitingPlaces, OwnPlaces, CenPlaces, Call, Goals, Aimed
  <2>5. Starts(c, Central, r) /\ UNCHANGED <<file, case, stopping>>
    BY <1>1, <1>4
  <2> HIDE DEF r
  <2>. QED BY <1>2, <2>2, <2>4, <2>5, ResolveKeeps
<1>. QED BY <1>1, <1>3, <1>4

\* The central world, again.
LEMMA RecheckKeeps == ASSUME Always, NEW c \in Conns, Recheck(c), UNCHANGED case PROVE Always'
<1>1. /\ call[c].at = "recheck" /\ UNCHANGED <<file, stopping>>
      /\ \/ Finds(c, Central, [call[c] EXCEPT !.at = (IF call[c].want = 0 THEN "enter" ELSE "own"), !.cen = worlds[Central]])
         \/ Starts(c, Central, [call[c] EXCEPT !.at = (IF call[c].want = 0 THEN "enter" ELSE "own"), !.cen = (Len(thread) + 1)])
  BY RecheckIs DEF Always
<1>2. Carries(c, call[c]) /\ call[c] \in Call /\ Points(thread, c, call[c]) /\ Central \in Keys
  BY Knows
<1>3. CASE Finds(c, Central, [call[c] EXCEPT !.at = (IF call[c].want = 0 THEN "enter" ELSE "own"), !.cen = worlds[Central]])
  <2> DEFINE r == [call[c] EXCEPT !.at = (IF call[c].want = 0 THEN "enter" ELSE "own"), !.cen = worlds[Central]]
  <2>1. /\ Runs(thread', worlds[Central], Central) /\ worlds[Central] \in Nat
        /\ \A t \in 1..Len(thread) : t \in 1..Len(thread') /\ thread'[t].key = thread[t].key
    BY <1>2, <1>3, Resolved
  <2>2. /\ r \in Call /\ r.at = (IF call[c].want = 0 THEN "enter" ELSE "own") /\ r.seq = call[c].seq /\ r.held = call[c].held /\ r.want = call[c].want
        /\ r.goal = call[c].goal /\ r.cen = worlds[Central] /\ r.own = call[c].own
    BY <1>1, <1>2, <2>1 DEF Call, Places, Carries, Goals, Aimed
  <2>3. Points(thread', c, call[c])
    BY <1>2, <2>1, StillPoints
  <2>4. Carries(c, r) /\ Points(thread', c, r) /\ r.at \notin WaitingPlaces
    BY <1>1, <1>2, <2>1, <2>2, <2>3 DEF Carries, Points, WaitingPlaces, OwnPlaces, CenPlaces, Call, Goals, Aimed
  <2>5. Finds(c, Central, r) /\ UNCHANGED <<file, case, stopping>>
    BY <1>1, <1>3
  <2> HIDE DEF r
  <2>. QED BY <1>2, <2>2, <2>4, <2>5, ResolveKeeps
<1>4. CASE Starts(c, Central, [call[c] EXCEPT !.at = (IF call[c].want = 0 THEN "enter" ELSE "own"), !.cen = (Len(thread) + 1)])
  <2> DEFINE r == [call[c] EXCEPT !.at = (IF call[c].want = 0 THEN "enter" ELSE "own"), !.cen = (Len(thread) + 1)]
  <2>1. /\ Runs(thread', (Len(thread) + 1), Central) /\ (Len(thread) + 1) \in Nat
        /\ \A t \in 1..Len(thread) : t \in 1..Len(thread') /\ thread'[t].key = thread[t].key
    BY <1>2, <1>4, Resolved
  <2>2. /\ r \in Call /\ r.at = (IF call[c].want = 0 THEN "enter" ELSE "own") /\ r.seq = call[c].seq /\ r.held = call[c].held /\ r.want = call[c].want
        /\ r.goal = call[c].goal /\ r.cen = (Len(thread) + 1) /\ r.own = call[c].own
    BY <1>1, <1>2, <2>1 DEF Call, Places, Carries, Goals, Aimed
  <2>3. Points(thread', c, call[c])
    BY <1>2, <2>1, StillPoints
  <2>4. Carries(c, r) /\ Points(thread', c, r) /\ r.at \notin WaitingPlaces
    BY <1>1, <1>2, <2>1, <2>2, <2>3 DEF Carries, Points, WaitingPlaces, OwnPlaces, CenPlaces, Call, Goals, Aimed
  <2>5. Starts(c, Central, r) /\ UNCHANGED <<file, case, stopping>>
    BY <1>1, <1>4
  <2> HIDE DEF r
  <2>. QED BY <1>2, <2>2, <2>4, <2>5, ResolveKeeps
<1>. QED BY <1>1, <1>3, <1>4

\* The personal world, again.
LEMMA OwnAgainKeeps == ASSUME Always, NEW c \in Conns, OwnAgain(c), UNCHANGED case PROVE Always'
<1>1. /\ call[c].at = "again" /\ UNCHANGED <<file, stopping>>
      /\ \/ Leaves(c, "out") /\ UNCHANGED worlds
         \/ Finds(c, Me(c), [call[c] EXCEPT !.at = "join", !.retry = TRUE, !.own = worlds[Me(c)]])
         \/ Starts(c, Me(c), [call[c] EXCEPT !.at = "join", !.retry = TRUE, !.own = (Len(thread) + 1)])
  BY OwnAgainIs DEF Always
<1>2. Carries(c, call[c]) /\ call[c] \in Call /\ Points(thread, c, call[c]) /\ Me(c) \in Keys
  BY Knows
<1>3. CASE Leaves(c, "out") /\ UNCHANGED worlds
  BY <1>1, <1>3, LeaveKeeps DEF Leaves
<1>4. CASE Finds(c, Me(c), [call[c] EXCEPT !.at = "join", !.retry = TRUE, !.own = worlds[Me(c)]])
  <2> DEFINE r == [call[c] EXCEPT !.at = "join", !.retry = TRUE, !.own = worlds[Me(c)]]
  <2>1. /\ Runs(thread', worlds[Me(c)], Me(c)) /\ worlds[Me(c)] \in Nat
        /\ \A t \in 1..Len(thread) : t \in 1..Len(thread') /\ thread'[t].key = thread[t].key
    BY <1>2, <1>4, Resolved
  <2>2. /\ r \in Call /\ r.at = "join" /\ r.seq = call[c].seq /\ r.held = call[c].held /\ r.want = call[c].want
        /\ r.goal = call[c].goal /\ r.own = worlds[Me(c)] /\ r.cen = call[c].cen
    BY <1>1, <1>2, <2>1 DEF Call, Places, Carries, Goals, Aimed
  <2>3. Points(thread', c, call[c])
    BY <1>2, <2>1, StillPoints
  <2>4. Carries(c, r) /\ Points(thread', c, r) /\ r.at \notin WaitingPlaces
    BY <1>1, <1>2, <2>1, <2>2, <2>3 DEF Carries, Points, WaitingPlaces, OwnPlaces, CenPlaces, Call, Goals, Aimed
  <2>5. Finds(c, Me(c), r) /\ UNCHANGED <<file, case, stopping>>
    BY <1>1, <1>4
  <2> HIDE DEF r
  <2>. QED BY <1>2, <2>2, <2>4, <2>5, ResolveKeeps
<1>5. CASE Starts(c, Me(c), [call[c] EXCEPT !.at = "join", !.retry = TRUE, !.own = (Len(thread) + 1)])
  <2> DEFINE r == [call[c] EXCEPT !.at = "join", !.retry = TRUE, !.own = (Len(thread) + 1)]
  <2>1. /\ Runs(thread', (Len(thread) + 1), Me(c)) /\ (Len(thread) + 1) \in Nat
        /\ \A t \in 1..Len(thread) : t \in 1..Len(thread') /\ thread'[t].key = thread[t].key
    BY <1>2, <1>5, Resolved
  <2>2. /\ r \in Call /\ r.at = "join" /\ r.seq = call[c].seq /\ r.held = call[c].held /\ r.want = call[c].want
        /\ r.goal = call[c].goal /\ r.own = (Len(thread) + 1) /\ r.cen = call[c].cen
    BY <1>1, <1>2, <2>1 DEF Call, Places, Carries, Goals, Aimed
  <2>3. Points(thread', c, call[c])
    BY <1>2, <2>1, StillPoints
  <2>4. Carries(c, r) /\ Points(thread', c, r) /\ r.at \notin WaitingPlaces
    BY <1>1, <1>2, <2>1, <2>2, <2>3 DEF Carries, Points, WaitingPlaces, OwnPlaces, CenPlaces, Call, Goals, Aimed
  <2>5. Starts(c, Me(c), r) /\ UNCHANGED <<file, case, stopping>>
    BY <1>1, <1>5
  <2> HIDE DEF r
  <2>. QED BY <1>2, <2>2, <2>4, <2>5, ResolveKeeps
<1>. QED BY <1>1, <1>3, <1>4, <1>5

\* The request to join at home.
LEMMA JoinOwnKeeps == ASSUME Always, NEW c \in Conns, JoinOwn(c), UNCHANGED case PROVE Always'
<1>1. /\ call[c].at = "join" /\ UNCHANGED <<worlds, file, stopping>>
      /\ \/ Asks(c, call[c].own, "join", {}, "joining")
         \/ Leaves(c, "out")
         \/ Goes(c, "forget")
  BY JoinOwnIs DEF Always
<1>2. Carries(c, call[c]) /\ call[c] \in Call /\ Points(thread, c, call[c]) /\ Found
  BY Knows
<1>3. Runs(thread, call[c].own, Me(c))
  BY <1>1, <1>2 DEF Points, OwnPlaces, CenPlaces
<1>4. CASE Asks(c, call[c].own, "join", {}, "joining")
  <2>1. /\ "join" \in Kinds /\ {} \in Nat \cup SUBSET Settlers /\ "joining" \in WaitingPlaces /\ "join" = KindOf("joining")
        /\ call[c].at \in OwnPlaces /\ thread[call[c].own].key = Me(c)
    BY <1>1, <1>2, <1>3 DEF Kinds, Call, WaitingPlaces, KindOf, OwnPlaces, CenPlaces, Runs
  <2>2. /\ "joining" \in OwnPlaces => call[c].at \in OwnPlaces
        /\ "joining" \in CenPlaces => call[c].at \in CenPlaces
    BY <1>1 DEF OwnPlaces, CenPlaces
  <2>3. "joining" \in Aimed => call[c].at \in Aimed
    BY <1>1 DEF Aimed
  <2>. QED BY <1>1, <1>2, <1>3, <1>4, <2>1, <2>2, <2>3, AskKeeps DEF Runs, Call
<1>5. CASE Leaves(c, "out")
  BY <1>1, <1>5, LeaveKeeps DEF Leaves
<1>6. CASE Goes(c, "forget")
  <2>1. /\ "forget" \in Places \ (WaitingPlaces \cup {"own", "lock"})
        /\ "forget" \in OwnPlaces => call[c].at \in OwnPlaces
        /\ "forget" \in CenPlaces => call[c].at \in CenPlaces
        /\ "forget" \in Aimed => call[c].at \in Aimed
    BY <1>1 DEF Places, WaitingPlaces, OwnPlaces, CenPlaces, Aimed
  <2>2. Found'
    BY <1>1, <1>2, <1>6 DEF Found, Goes, Moves
  <2>. QED BY <1>1, <1>6, <2>1, <2>2, GoKeeps DEF Goes
<1>. QED BY <1>1, <1>4, <1>5, <1>6

\* The count.
LEMMA CountKeeps == ASSUME Always, NEW c \in Conns, Count(c), UNCHANGED case PROVE Always'
<1>1. /\ call[c].at = "count" /\ UNCHANGED <<worlds, file, stopping>>
      /\ \/ Asks(c, call[c].cen, "count", {}, "counting")
         \/ Leaves(c, "out")
         \/ Goes(c, "stale")
  BY CountIs DEF Always
<1>2. Carries(c, call[c]) /\ call[c] \in Call /\ Points(thread, c, call[c]) /\ Found
  BY Knows
<1>3. Runs(thread, call[c].cen, Central)
  BY <1>1, <1>2 DEF Points, OwnPlaces, CenPlaces
<1>4. CASE Asks(c, call[c].cen, "count", {}, "counting")
  <2>1. /\ "count" \in Kinds /\ {} \in Nat \cup SUBSET Settlers /\ "counting" \in WaitingPlaces /\ "count" = KindOf("counting")
        /\ call[c].at \in CenPlaces /\ thread[call[c].cen].key = Central
    BY <1>1, <1>2, <1>3 DEF Kinds, Call, WaitingPlaces, KindOf, OwnPlaces, CenPlaces, Runs
  <2>2. /\ "counting" \in OwnPlaces => call[c].at \in OwnPlaces
        /\ "counting" \in CenPlaces => call[c].at \in CenPlaces
    BY <1>1 DEF OwnPlaces, CenPlaces
  <2>3. "counting" \in Aimed => call[c].at \in Aimed
    BY <1>1 DEF Aimed
  <2>. QED BY <1>1, <1>2, <1>3, <1>4, <2>1, <2>2, <2>3, AskKeeps DEF Runs, Call
<1>5. CASE Leaves(c, "out")
  BY <1>1, <1>5, LeaveKeeps DEF Leaves
<1>6. CASE Goes(c, "stale")
  <2>1. /\ "stale" \in Places \ (WaitingPlaces \cup {"own", "lock"})
        /\ "stale" \in OwnPlaces => call[c].at \in OwnPlaces
        /\ "stale" \in CenPlaces => call[c].at \in CenPlaces
        /\ "stale" \in Aimed => call[c].at \in Aimed
    BY <1>1 DEF Places, WaitingPlaces, OwnPlaces, CenPlaces, Aimed
  <2>2. Found'
    BY <1>1, <1>2, <1>6 DEF Found, Goes, Moves
  <2>. QED BY <1>1, <1>6, <2>1, <2>2, GoKeeps DEF Goes
<1>. QED BY <1>1, <1>4, <1>5, <1>6

\* The request for migrants.
LEMMA ExtractKeeps == ASSUME Always, NEW c \in Conns, Extract(c), UNCHANGED case PROVE Always'
<1>1. /\ call[c].at = "extract" /\ UNCHANGED <<worlds, file, stopping>>
      /\ \/ Asks(c, call[c].own, "extract", call[c].want, "extracting")
         \/ Leaves(c, "out")
  BY ExtractIs DEF Always
<1>2. Carries(c, call[c]) /\ call[c] \in Call /\ Points(thread, c, call[c]) /\ Found
  BY Knows
<1>3. Runs(thread, call[c].own, Me(c))
  BY <1>1, <1>2 DEF Points, OwnPlaces, CenPlaces
<1>4. CASE Asks(c, call[c].own, "extract", call[c].want, "extracting")
  <2>1. /\ "extract" \in Kinds /\ call[c].want \in Nat \cup SUBSET Settlers /\ "extracting" \in WaitingPlaces /\ "extract" = KindOf("extracting")
        /\ call[c].at \in OwnPlaces /\ thread[call[c].own].key = Me(c)
    BY <1>1, <1>2, <1>3 DEF Kinds, Call, WaitingPlaces, KindOf, OwnPlaces, CenPlaces, Runs
  <2>2. /\ "extracting" \in OwnPlaces => call[c].at \in OwnPlaces
        /\ "extracting" \in CenPlaces => call[c].at \in CenPlaces
    BY <1>1 DEF OwnPlaces, CenPlaces
  <2>3. "extracting" \in Aimed => call[c].at \in Aimed
    BY <1>1 DEF Aimed
  <2>. QED BY <1>1, <1>2, <1>3, <1>4, <2>1, <2>2, <2>3, AskKeeps DEF Runs, Call
<1>5. CASE Leaves(c, "out")
  BY <1>1, <1>5, LeaveKeeps DEF Leaves
<1>. QED BY <1>1, <1>4, <1>5

\* The request to join the central world.
LEMMA EnterKeeps == ASSUME Always, NEW c \in Conns, Enter(c), UNCHANGED case PROVE Always'
<1>1. /\ call[c].at = "enter" /\ UNCHANGED <<worlds, file, stopping>>
      /\ \/ Asks(c, call[c].cen, "join", {}, "entering")
         \/ Leaves(c, "out")
  BY EnterIs DEF Always
<1>2. Carries(c, call[c]) /\ call[c] \in Call /\ Points(thread, c, call[c]) /\ Found
  BY Knows
<1>3. Runs(thread, call[c].cen, Central)
  BY <1>1, <1>2 DEF Points, OwnPlaces, CenPlaces
<1>4. CASE Asks(c, call[c].cen, "join", {}, "entering")
  <2>1. /\ "join" \in Kinds /\ {} \in Nat \cup SUBSET Settlers /\ "entering" \in WaitingPlaces /\ "join" = KindOf("entering")
        /\ call[c].at \in CenPlaces /\ thread[call[c].cen].key = Central
    BY <1>1, <1>2, <1>3 DEF Kinds, Call, WaitingPlaces, KindOf, OwnPlaces, CenPlaces, Runs
  <2>2. /\ "entering" \in OwnPlaces => call[c].at \in OwnPlaces
        /\ "entering" \in CenPlaces => call[c].at \in CenPlaces
    BY <1>1 DEF OwnPlaces, CenPlaces
  <2>3. "entering" \in Aimed => call[c].at \in Aimed
    BY <1>1 DEF Aimed
  <2>. QED BY <1>1, <1>2, <1>3, <1>4, <2>1, <2>2, <2>3, AskKeeps DEF Runs, Call
<1>5. CASE Leaves(c, "out")
  BY <1>1, <1>5, LeaveKeeps DEF Leaves
<1>. QED BY <1>1, <1>4, <1>5

\* The request for the settlers.
LEMMA FetchKeeps == ASSUME Always, NEW c \in Conns, Fetch(c), UNCHANGED case PROVE Always'
<1>1. /\ call[c].at = "fetch" /\ UNCHANGED <<worlds, file, stopping>>
      /\ \/ Asks(c, call[c].cen, "settlers", {}, "fetching")
         \/ Goes(c, "join")
  BY FetchIs DEF Always
<1>2. Carries(c, call[c]) /\ call[c] \in Call /\ Points(thread, c, call[c]) /\ Found
  BY Knows
<1>3. Runs(thread, call[c].cen, Central)
  BY <1>1, <1>2 DEF Points, OwnPlaces, CenPlaces
<1>4. CASE Asks(c, call[c].cen, "settlers", {}, "fetching")
  <2>1. /\ "settlers" \in Kinds /\ {} \in Nat \cup SUBSET Settlers /\ "fetching" \in WaitingPlaces /\ "settlers" = KindOf("fetching")
        /\ call[c].at \in CenPlaces /\ thread[call[c].cen].key = Central
    BY <1>1, <1>2, <1>3 DEF Kinds, Call, WaitingPlaces, KindOf, OwnPlaces, CenPlaces, Runs
  <2>2. /\ "fetching" \in OwnPlaces => call[c].at \in OwnPlaces
        /\ "fetching" \in CenPlaces => call[c].at \in CenPlaces
    BY <1>1 DEF OwnPlaces, CenPlaces
  <2>3. "fetching" \in Aimed => call[c].at \in Aimed
    BY <1>1 DEF Aimed
  <2>. QED BY <1>1, <1>2, <1>3, <1>4, <2>1, <2>2, <2>3, AskKeeps DEF Runs, Call
<1>5. CASE Goes(c, "join")
  <2>1. /\ "join" \in Places \ (WaitingPlaces \cup {"own", "lock"})
        /\ "join" \in OwnPlaces => call[c].at \in OwnPlaces
        /\ "join" \in CenPlaces => call[c].at \in CenPlaces
        /\ "join" \in Aimed => call[c].at \in Aimed
    BY <1>1 DEF Places, WaitingPlaces, OwnPlaces, CenPlaces, Aimed
  <2>2. Found'
    BY <1>1, <1>2, <1>5 DEF Found, Goes, Moves
  <2>. QED BY <1>1, <1>5, <2>1, <2>2, GoKeeps DEF Goes
<1>. QED BY <1>1, <1>4, <1>5

\* The request to take them.
LEMMA SettleKeeps == ASSUME Always, NEW c \in Conns, Settle(c), UNCHANGED case PROVE Always'
<1>1. /\ call[c].at = "settle" /\ UNCHANGED <<worlds, file, stopping>>
      /\ \/ Asks(c, call[c].own, "returnees", call[c].held, "settling")
         \/ Goes(c, "putback")
  BY SettleIs DEF Always
<1>2. Carries(c, call[c]) /\ call[c] \in Call /\ Points(thread, c, call[c]) /\ Found
  BY Knows
<1>3. Runs(thread, call[c].own, Me(c))
  BY <1>1, <1>2 DEF Points, OwnPlaces, CenPlaces
<1>4. CASE Asks(c, call[c].own, "returnees", call[c].held, "settling")
  <2>1. /\ "returnees" \in Kinds /\ call[c].held \in Nat \cup SUBSET Settlers /\ "settling" \in WaitingPlaces /\ "returnees" = KindOf("settling")
        /\ call[c].at \in OwnPlaces /\ thread[call[c].own].key = Me(c)
    BY <1>1, <1>2, <1>3 DEF Kinds, Call, WaitingPlaces, KindOf, OwnPlaces, CenPlaces, Runs
  <2>2. /\ "settling" \in OwnPlaces => call[c].at \in OwnPlaces
        /\ "settling" \in CenPlaces => call[c].at \in CenPlaces
    BY <1>1 DEF OwnPlaces, CenPlaces
  <2>3. "settling" \in Aimed => call[c].at \in Aimed
    BY <1>1 DEF Aimed
  <2>. QED BY <1>1, <1>2, <1>3, <1>4, <2>1, <2>2, <2>3, AskKeeps DEF Runs, Call
<1>5. CASE Goes(c, "putback")
  <2>1. /\ "putback" \in Places \ (WaitingPlaces \cup {"own", "lock"})
        /\ "putback" \in OwnPlaces => call[c].at \in OwnPlaces
        /\ "putback" \in CenPlaces => call[c].at \in CenPlaces
        /\ "putback" \in Aimed => call[c].at \in Aimed
    BY <1>1 DEF Places, WaitingPlaces, OwnPlaces, CenPlaces, Aimed
  <2>2. Found'
    BY <1>1, <1>2, <1>5 DEF Found, Goes, Moves
  <2>. QED BY <1>1, <1>5, <2>1, <2>2, GoKeeps DEF Goes
<1>. QED BY <1>1, <1>4, <1>5

-----------------------------------------------------------------------------
(* What a call makes of an answer *)

\* A world's entry goes; the others are as they were.
LEMMA Forgetting ==
  ASSUME Always, NEW k, worlds' = Restrict(worlds, DOMAIN worlds \ {k}), UNCHANGED thread
  PROVE  Found'
BY DEF Always, Shape, Found, Restrict

\* A call that goes on with something changed.
LEMMA MoveKeeps ==
  ASSUME Always, NEW c \in Conns, NEW r \in Call, Moves(c, r), r.seq = call[c].seq, r.at \notin WaitingPlaces,
         Carries(c, r), Points(thread, c, r), Found', UNCHANGED <<file, case, stopping>>
  PROVE  Always'
<1>1. Later(c, r)
  BY Knows DEF Later
<1>2. Turns(c, r) /\ UNCHANGED thread
  BY DEF Moves
<1>. QED BY <1>1, <1>2, TurnKeeps

\* The join's answer.
LEMMA JoiningKeeps == ASSUME Always, NEW c \in Conns, Joining(c), UNCHANGED case PROVE Always'
<1>1. call[c].at = "joining" /\ Shape
  BY JoiningIs DEF Always
<1>2. Carries(c, call[c]) /\ call[c] \in Call /\ Points(thread, c, call[c]) /\ Found /\ GroupCap \in Nat
  BY Knows
<1>3. CASE Leaves(c, "in") /\ UNCHANGED <<worlds, file, stopping>>
  BY <1>3, LeaveKeeps DEF Leaves
<1>4. CASE Leaves(c, "out") /\ UNCHANGED <<worlds, file, stopping>>
  BY <1>4, LeaveKeeps DEF Leaves
<1>5. CASE Goes(c, "forget") /\ UNCHANGED <<file, stopping>> /\ UNCHANGED worlds
  <2>1. /\ "forget" \in Places \ (WaitingPlaces \cup {"own", "lock"})
        /\ "forget" \in OwnPlaces => call[c].at \in OwnPlaces
        /\ "forget" \in CenPlaces => call[c].at \in CenPlaces
        /\ "forget" \in Aimed => call[c].at \in Aimed
    BY <1>1 DEF Places, WaitingPlaces, OwnPlaces, CenPlaces, Aimed
  <2>2. Found' /\ Moves(c, Going(c, "forget"))
    BY <1>1, <1>2, <1>5 DEF Found, Goes, Moves
  <2>. QED BY <1>5, <2>1, <2>2, GoKeeps
<1>. QED BY <1>1, <1>3, <1>4, <1>5, JoiningIs

\* The count's answer.
LEMMA CountingKeeps == ASSUME Always, NEW c \in Conns, Counting(c), UNCHANGED case PROVE Always'
<1>1. call[c].at = "counting" /\ Shape
  BY CountingIs DEF Always
<1>2. Carries(c, call[c]) /\ call[c] \in Call /\ Points(thread, c, call[c]) /\ Found /\ GroupCap \in Nat
  BY Knows
<1>3. CASE call[c].ans.is = "value" /\ Moves(c, [call[c] EXCEPT !.at = "recheck", !.want = Want(call[c].ans.value)]) /\ UNCHANGED <<file, stopping>> /\ UNCHANGED worlds
  <2> DEFINE r == [call[c] EXCEPT !.at = "recheck", !.want = Want(call[c].ans.value)]
  <2>1. Want(call[c].ans.value) \in Nat /\ Want(call[c].ans.value) <= GroupCap
    BY <1>1, <1>2, <1>3 DEF Want, Carries
  <2>2. /\ r \in Call /\ r.at = "recheck" /\ r.seq = call[c].seq /\ r.want = Want(call[c].ans.value)
        /\ r.goal = call[c].goal /\ r.own = call[c].own /\ r.cen = call[c].cen /\ r.held = call[c].held /\ r.ans = call[c].ans
    BY <1>1, <1>2, <2>1 DEF Call, Places
  <2>3. Moves(c, r) /\ Found'
    BY <1>3, <1>2 DEF Found, Moves
  <2>4. Carries(c, r) /\ Points(thread, c, r) /\ r.at \notin WaitingPlaces
    BY <1>1, <1>2, <2>1, <2>2 DEF Carries, Points, WaitingPlaces, OwnPlaces, CenPlaces, Aimed
  <2> HIDE DEF r
  <2>. QED BY <1>3, <2>2, <2>3, <2>4, MoveKeeps
<1>4. CASE Leaves(c, "out") /\ UNCHANGED <<worlds, file, stopping>>
  BY <1>4, LeaveKeeps DEF Leaves
<1>5. CASE Goes(c, "stale") /\ UNCHANGED <<file, stopping>> /\ UNCHANGED worlds
  <2>1. /\ "stale" \in Places \ (WaitingPlaces \cup {"own", "lock"})
        /\ "stale" \in OwnPlaces => call[c].at \in OwnPlaces
        /\ "stale" \in CenPlaces => call[c].at \in CenPlaces
        /\ "stale" \in Aimed => call[c].at \in Aimed
    BY <1>1 DEF Places, WaitingPlaces, OwnPlaces, CenPlaces, Aimed
  <2>2. Found' /\ Moves(c, Going(c, "stale"))
    BY <1>1, <1>2, <1>5 DEF Found, Goes, Moves
  <2>. QED BY <1>5, <2>1, <2>2, GoKeeps
<1>. QED BY <1>1, <1>3, <1>4, <1>5, CountingIs

\* The migrants' answer.
LEMMA ExtractingKeeps == ASSUME Always, NEW c \in Conns, Extracting(c), UNCHANGED case PROVE Always'
<1>1. call[c].at = "extracting" /\ Shape
  BY ExtractingIs DEF Always
<1>2. Carries(c, call[c]) /\ call[c] \in Call /\ Points(thread, c, call[c]) /\ Found /\ GroupCap \in Nat
  BY Knows
<1>3. CASE Leaves(c, "out") /\ UNCHANGED <<worlds, file, stopping>>
  BY <1>3, LeaveKeeps DEF Leaves
<1>4. CASE Goes(c, "enter") /\ UNCHANGED <<file, stopping>> /\ UNCHANGED worlds
  <2>1. /\ "enter" \in Places \ (WaitingPlaces \cup {"own", "lock"})
        /\ "enter" \in OwnPlaces => call[c].at \in OwnPlaces
        /\ "enter" \in CenPlaces => call[c].at \in CenPlaces
        /\ "enter" \in Aimed => call[c].at \in Aimed
    BY <1>1 DEF Places, WaitingPlaces, OwnPlaces, CenPlaces, Aimed
  <2>2. Found' /\ Moves(c, Going(c, "enter"))
    BY <1>1, <1>2, <1>4 DEF Found, Goes, Moves
  <2>. QED BY <1>4, <2>1, <2>2, GoKeeps
<1>5. CASE call[c].ans.is = "value" /\ Moves(c, [call[c] EXCEPT !.at = (IF call[c].ans.value = {} THEN "enter" ELSE "inject"), !.held = call[c].ans.value]) /\ UNCHANGED <<file, stopping>> /\ UNCHANGED worlds
  <2> DEFINE r == [call[c] EXCEPT !.at = (IF call[c].ans.value = {} THEN "enter" ELSE "inject"), !.held = call[c].ans.value]
  <2>1. call[c].ans.value \subseteq Born[Me(c)] /\ call[c].ans.value \in SUBSET Settlers
    BY <1>1, <1>2, <1>5, Knows, ManagerAssumption DEF Carries
  <2>2. /\ r \in Call /\ r.at = (IF call[c].ans.value = {} THEN "enter" ELSE "inject") /\ r.seq = call[c].seq /\ r.held = call[c].ans.value
        /\ r.goal = call[c].goal /\ r.own = call[c].own /\ r.cen = call[c].cen /\ r.want = call[c].want /\ r.ans = call[c].ans
    BY <1>1, <1>2, <2>1 DEF Call, Places
  <2>3. Moves(c, r) /\ Found'
    BY <1>5, <1>2 DEF Found, Moves
  <2>4. Carries(c, r) /\ Points(thread, c, r) /\ r.at \notin WaitingPlaces
    BY <1>1, <1>2, <2>1, <2>2 DEF Carries, Points, WaitingPlaces, OwnPlaces, CenPlaces, Aimed
  <2> HIDE DEF r
  <2>. QED BY <1>5, <2>2, <2>3, <2>4, MoveKeeps
<1>. QED BY <1>1, <1>3, <1>4, <1>5, ExtractingIs

\* The central join's answer.
LEMMA EnteringKeeps == ASSUME Always, NEW c \in Conns, Entering(c), UNCHANGED case PROVE Always'
<1>1. call[c].at = "entering" /\ Shape
  BY EnteringIs DEF Always
<1>2. Carries(c, call[c]) /\ call[c] \in Call /\ Points(thread, c, call[c]) /\ Found /\ GroupCap \in Nat
  BY Knows
<1>3. CASE Leaves(c, "in") /\ UNCHANGED <<worlds, file, stopping>>
  BY <1>3, LeaveKeeps DEF Leaves
<1>4. CASE Leaves(c, "out") /\ UNCHANGED <<worlds, file, stopping>>
  BY <1>4, LeaveKeeps DEF Leaves
<1>. QED BY <1>1, <1>3, <1>4, EnteringIs

\* The settlers' answer.
LEMMA FetchingKeeps == ASSUME Always, NEW c \in Conns, Fetching(c), UNCHANGED case PROVE Always'
<1>1. call[c].at = "fetching" /\ Shape
  BY FetchingIs DEF Always
<1>2. Carries(c, call[c]) /\ call[c] \in Call /\ Points(thread, c, call[c]) /\ Found /\ GroupCap \in Nat
  BY Knows
<1>3. CASE call[c].ans.is = "value" /\ Moves(c, [call[c] EXCEPT !.at = (IF call[c].ans.value = {} THEN "join" ELSE "settle"), !.held = call[c].ans.value]) /\ UNCHANGED <<file, stopping>> /\ UNCHANGED worlds
  <2> DEFINE r == [call[c] EXCEPT !.at = (IF call[c].ans.value = {} THEN "join" ELSE "settle"), !.held = call[c].ans.value]
  <2>1. call[c].ans.value \subseteq Born[Me(c)] /\ call[c].ans.value \in SUBSET Settlers
    BY <1>1, <1>2, <1>3, Knows, ManagerAssumption DEF Carries
  <2>2. /\ r \in Call /\ r.at = (IF call[c].ans.value = {} THEN "join" ELSE "settle") /\ r.seq = call[c].seq /\ r.held = call[c].ans.value
        /\ r.goal = call[c].goal /\ r.own = call[c].own /\ r.cen = call[c].cen /\ r.want = call[c].want /\ r.ans = call[c].ans
    BY <1>1, <1>2, <2>1 DEF Call, Places
  <2>3. Moves(c, r) /\ Found'
    BY <1>3, <1>2 DEF Found, Moves
  <2>4. Carries(c, r) /\ Points(thread, c, r) /\ r.at \notin WaitingPlaces
    BY <1>1, <1>2, <2>1, <2>2 DEF Carries, Points, WaitingPlaces, OwnPlaces, CenPlaces, Aimed
  <2> HIDE DEF r
  <2>. QED BY <1>3, <2>2, <2>3, <2>4, MoveKeeps
<1>4. CASE Goes(c, "join") /\ UNCHANGED <<file, stopping>> /\ UNCHANGED worlds
  <2>1. /\ "join" \in Places \ (WaitingPlaces \cup {"own", "lock"})
        /\ "join" \in OwnPlaces => call[c].at \in OwnPlaces
        /\ "join" \in CenPlaces => call[c].at \in CenPlaces
        /\ "join" \in Aimed => call[c].at \in Aimed
    BY <1>1 DEF Places, WaitingPlaces, OwnPlaces, CenPlaces, Aimed
  <2>2. Found' /\ Moves(c, Going(c, "join"))
    BY <1>1, <1>2, <1>4 DEF Found, Goes, Moves
  <2>. QED BY <1>4, <2>1, <2>2, GoKeeps
<1>. QED BY <1>1, <1>3, <1>4, FetchingIs

\* The central world, if it runs.
LEMMA FindKeeps == ASSUME Always, NEW c \in Conns, Find(c), UNCHANGED case PROVE Always'
<1>1. call[c].at = "find" /\ Shape
  BY FindIs DEF Always
<1>2. Carries(c, call[c]) /\ call[c] \in Call /\ Points(thread, c, call[c]) /\ Found /\ GroupCap \in Nat
  BY Knows
<1>3. CASE Central \in DOMAIN worlds /\ Moves(c, [call[c] EXCEPT !.at = "fetch", !.cen = worlds[Central]]) /\ UNCHANGED <<file, stopping>> /\ UNCHANGED worlds
  <2> DEFINE r == [call[c] EXCEPT !.at = "fetch", !.cen = worlds[Central]]
  <2>1. Runs(thread, worlds[Central], Central) /\ worlds[Central] \in Nat
    BY <1>3, Knows DEF Found
  <2>2. /\ r \in Call /\ r.at = "fetch" /\ r.seq = call[c].seq /\ r.cen = worlds[Central]
        /\ r.goal = call[c].goal /\ r.own = call[c].own /\ r.want = call[c].want /\ r.held = call[c].held /\ r.ans = call[c].ans
    BY <1>1, <1>2, <2>1 DEF Call, Places
  <2>3. Moves(c, r) /\ Found'
    BY <1>3, <1>2 DEF Found, Moves
  <2>4. Carries(c, r) /\ Points(thread, c, r) /\ r.at \notin WaitingPlaces
    BY <1>1, <1>2, <2>1, <2>2 DEF Carries, Points, WaitingPlaces, OwnPlaces, CenPlaces, Aimed
  <2> HIDE DEF r
  <2>. QED BY <1>3, <2>2, <2>3, <2>4, MoveKeeps
<1>4. CASE Goes(c, "join") /\ UNCHANGED <<file, stopping>> /\ UNCHANGED worlds
  <2>1. /\ "join" \in Places \ (WaitingPlaces \cup {"own", "lock"})
        /\ "join" \in OwnPlaces => call[c].at \in OwnPlaces
        /\ "join" \in CenPlaces => call[c].at \in CenPlaces
        /\ "join" \in Aimed => call[c].at \in Aimed
    BY <1>1 DEF Places, WaitingPlaces, OwnPlaces, CenPlaces, Aimed
  <2>2. Found' /\ Moves(c, Going(c, "join"))
    BY <1>1, <1>2, <1>4 DEF Found, Goes, Moves
  <2>. QED BY <1>4, <2>1, <2>2, GoKeeps
<1>. QED BY <1>1, <1>3, <1>4, FindIs

\* A stale personal world's entry goes.
LEMMA ForgetOwnKeeps == ASSUME Always, NEW c \in Conns, ForgetOwn(c), UNCHANGED case PROVE Always'
<1>1. call[c].at = "forget" /\ Shape
  BY ForgetOwnIs DEF Always
<1>2. Carries(c, call[c]) /\ call[c] \in Call /\ Points(thread, c, call[c]) /\ Found /\ GroupCap \in Nat
  BY Knows
<1>3. CASE Goes(c, "again") /\ UNCHANGED <<file, stopping>> /\ worlds' = Restrict(worlds, DOMAIN worlds \ {Me(c)})
  <2>1. /\ "again" \in Places \ (WaitingPlaces \cup {"own", "lock"})
        /\ "again" \in OwnPlaces => call[c].at \in OwnPlaces
        /\ "again" \in CenPlaces => call[c].at \in CenPlaces
        /\ "again" \in Aimed => call[c].at \in Aimed
    BY <1>1 DEF Places, WaitingPlaces, OwnPlaces, CenPlaces, Aimed
  <2>2. Found' /\ Moves(c, Going(c, "again"))
    BY <1>1, <1>2, <1>3, Forgetting DEF Found, Goes, Moves
  <2>. QED BY <1>3, <2>1, <2>2, GoKeeps
<1>. QED BY <1>1, <1>3, ForgetOwnIs

\* A stale central world's entry goes.
LEMMA StaleKeeps == ASSUME Always, NEW c \in Conns, Stale(c), UNCHANGED case PROVE Always'
<1>1. call[c].at = "stale" /\ Shape
  BY StaleIs DEF Always
<1>2. Carries(c, call[c]) /\ call[c] \in Call /\ Points(thread, c, call[c]) /\ Found /\ GroupCap \in Nat
  BY Knows
<1>3. CASE Moves(c, [call[c] EXCEPT !.at = "cen", !.retry = TRUE]) /\ UNCHANGED <<file, stopping>> /\ worlds' = Restrict(worlds, DOMAIN worlds \ {Central})
  <2> DEFINE r == [call[c] EXCEPT !.at = "cen", !.retry = TRUE]
  <2>1. TRUE \in BOOLEAN
    OBVIOUS
  <2>2. /\ r \in Call /\ r.at = "cen" /\ r.seq = call[c].seq /\ r.retry = TRUE
        /\ r.goal = call[c].goal /\ r.own = call[c].own /\ r.cen = call[c].cen /\ r.want = call[c].want /\ r.held = call[c].held /\ r.ans = call[c].ans
    BY <1>1, <1>2, <2>1 DEF Call, Places
  <2>3. Moves(c, r) /\ Found'
    BY <1>3, <1>2, Forgetting DEF Found, Moves
  <2>4. Carries(c, r) /\ Points(thread, c, r) /\ r.at \notin WaitingPlaces
    BY <1>1, <1>2, <2>1, <2>2 DEF Carries, Points, WaitingPlaces, OwnPlaces, CenPlaces, Aimed
  <2> HIDE DEF r
  <2>. QED BY <1>3, <2>2, <2>3, <2>4, MoveKeeps
<1>. QED BY <1>1, <1>3, StaleIs

\* How many found room.
LEMMA SettlingKeeps == ASSUME Always, NEW c \in Conns, Settling(c), UNCHANGED case PROVE Always'
<1>1. call[c].at = "settling" /\ Shape /\ UNCHANGED <<worlds, file, stopping>>
  BY SettlingIs DEF Always
<1>2. Carries(c, call[c]) /\ call[c] \in Call /\ Points(thread, c, call[c]) /\ Found
  BY Knows
<1>3. PICK rest \in {Leftover(call[c].held, IF call[c].ans.is = "value" THEN call[c].ans.value ELSE 0)} :
        Moves(c, [call[c] EXCEPT !.at = IF rest = {} THEN "join" ELSE "putback", !.held = rest])
  BY <1>1, SettlingIs
<1>4. rest \subseteq call[c].held
  BY DEF Leftover
<1> DEFINE r == [call[c] EXCEPT !.at = IF rest = {} THEN "join" ELSE "putback", !.held = rest]
<1>5. /\ r \in Call /\ r.at = (IF rest = {} THEN "join" ELSE "putback") /\ r.seq = call[c].seq /\ r.held = rest
      /\ r.goal = call[c].goal /\ r.own = call[c].own /\ r.cen = call[c].cen /\ r.want = call[c].want
  BY <1>1, <1>2, <1>4 DEF Call, Places
<1>6. Carries(c, r) /\ Points(thread, c, r) /\ r.at \notin WaitingPlaces
  BY <1>1, <1>2, <1>4, <1>5 DEF Carries, Points, WaitingPlaces, OwnPlaces, CenPlaces, Aimed
<1>7. Moves(c, r) /\ Found'
  BY <1>1, <1>2, <1>3 DEF Found, Moves
<1> HIDE DEF r
<1>. QED BY <1>1, <1>5, <1>6, <1>7, MoveKeeps

\* Sending the migrants.
LEMMA InjectKeeps == ASSUME Always, NEW c \in Conns, Inject(c), UNCHANGED case PROVE Always'
<1>1. call[c].at = "inject" /\ Shape /\ UNCHANGED <<worlds, file, stopping>>
  BY InjectIs DEF Always
<1>2. /\ Carries(c, call[c]) /\ call[c] \in Call /\ Points(thread, c, call[c]) /\ Found /\ call[c].seq \in Nat
      /\ Me(c) # Central
  BY Knows
<1> DEFINE r == [call[c] EXCEPT !.at = "enter", !.held = {}]
           m == Telling(c, call[c].held)
<1>3. /\ r \in Call /\ r.at = "enter" /\ r.seq = call[c].seq /\ r.held = {} /\ r.ans = call[c].ans
      /\ r.goal = call[c].goal /\ r.own = call[c].own /\ r.cen = call[c].cen /\ r.want = call[c].want
  BY <1>1, <1>2 DEF Call, Places
<1>4. Carries(c, r) /\ Points(thread, c, r) /\ r.at \notin WaitingPlaces /\ Later(c, r)
  BY <1>1, <1>2, <1>3 DEF Carries, Points, WaitingPlaces, OwnPlaces, CenPlaces, Aimed, Later
<1>5. /\ m \in Message /\ m.kind = "inject" /\ m.from = c /\ m.arg = call[c].held /\ m.seq = 0
      /\ call[c].cen \in 1..Len(thread) /\ thread[call[c].cen].key = Central
  BY <1>1, <1>2 DEF Telling, Message, Kinds, Call, Points, CenPlaces, Runs
<1>6. Rightly(m, thread[call[c].cen].key) /\ Numbered(m, r)
  BY <1>2, <1>3, <1>4, <1>5 DEF Rightly, Numbered, Carries
<1>7. CASE Hears(call[c].cen) /\ Turns(c, r) /\ Puts(call[c].cen, m)
  <2> HIDE DEF r, m
  <2>. QED BY <1>1, <1>3, <1>4, <1>5, <1>6, <1>7, PutKeeps
<1>8. CASE Leaves(c, "out")
  BY <1>1, <1>8, LeaveKeeps DEF Leaves
<1>. QED BY <1>1, <1>7, <1>8, InjectIs

\* Sending those back who found no room.
LEMMA PutBackKeeps == ASSUME Always, NEW c \in Conns, PutBack(c), UNCHANGED case PROVE Always'
<1>1. call[c].at = "putback" /\ Shape /\ UNCHANGED <<worlds, file, stopping>>
  BY PutBackIs DEF Always
<1>2. /\ Carries(c, call[c]) /\ call[c] \in Call /\ Points(thread, c, call[c]) /\ Found /\ call[c].seq \in Nat
      /\ Me(c) # Central
  BY Knows
<1> DEFINE r == [call[c] EXCEPT !.at = "join", !.held = {}]
           m == Telling(c, call[c].held)
<1>3. /\ r \in Call /\ r.at = "join" /\ r.seq = call[c].seq /\ r.held = {} /\ r.ans = call[c].ans
      /\ r.goal = call[c].goal /\ r.own = call[c].own /\ r.cen = call[c].cen /\ r.want = call[c].want
  BY <1>1, <1>2 DEF Call, Places
<1>4. Carries(c, r) /\ Points(thread, c, r) /\ r.at \notin WaitingPlaces /\ Later(c, r)
  BY <1>1, <1>2, <1>3 DEF Carries, Points, WaitingPlaces, OwnPlaces, CenPlaces, Aimed, Later
<1>5. /\ m \in Message /\ m.kind = "inject" /\ m.from = c /\ m.arg = call[c].held /\ m.seq = 0
      /\ call[c].cen \in 1..Len(thread) /\ thread[call[c].cen].key = Central
  BY <1>1, <1>2 DEF Telling, Message, Kinds, Call, Points, CenPlaces, Runs
<1>6. Rightly(m, thread[call[c].cen].key) /\ Numbered(m, r)
  BY <1>2, <1>3, <1>4, <1>5 DEF Rightly, Numbered, Carries
<1>7. CASE Hears(call[c].cen) /\ Turns(c, r) /\ Puts(call[c].cen, m)
  <2> HIDE DEF r, m
  <2>. QED BY <1>1, <1>3, <1>4, <1>5, <1>6, <1>7, PutKeeps
<1>8. CASE Turns(c, r) /\ UNCHANGED thread
  <2>1. Moves(c, r) /\ Found'
    BY <1>1, <1>2, <1>8 DEF Found, Moves
  <2> HIDE DEF r
  <2>. QED BY <1>1, <1>3, <1>4, <2>1, MoveKeeps
<1>. QED BY <1>1, <1>7, <1>8, PutBackIs

-----------------------------------------------------------------------------
(* A step of a thread keeps what is always so *)

\* A call that is as it was but for its answer.
Unmoved(q, r) ==
  /\ r.at = q.at /\ r.goal = q.goal /\ r.cen = q.cen /\ r.own = q.own /\ r.want = q.want
  /\ r.held = q.held /\ r.retry = q.retry /\ r.seq = q.seq

\* Threads that are whose they were, people that fit, and inboxes with nothing
\* new, whatever calls were answered or ended.
LEMMA ThreadKeeps ==
  ASSUME Always, thread' \in Seq(Thread), Len(thread') = Len(thread),
         \A t \in 1..Len(thread) :
           /\ thread'[t].key = thread[t].key /\ Fits(thread[t].key, thread'[t].people)
           /\ \A m : In(thread'[t].inbox, m) => In(thread[t].inbox, m),
         call' \in [Conns -> Call],
         \A c \in Conns : Carries(c, call'[c]) /\ (Unmoved(call[c], call'[c]) \/
           (call'[c].at \in {"own", "lock"} /\ call'[c].goal \in {"login", "home", "central"} /\ call'[c].seq = call[c].seq
            /\ (call'[c].at = "own" => call'[c].goal # "central"))),
         file' \in [Keys -> SUBSET Settlers], Saved', Found', UNCHANGED case,
         stopping' \in {"no", "flagged", "joining", "exited"}
  PROVE  Always'
<1>1. Shape /\ Lodged /\ Lettered /\ Calling
  BY DEF Always
<1>2. Shape'
  BY <1>1 DEF Shape, Found
<1>3. Lodged'
  BY DEF Lodged
<1>4. Lettered'
  <2> SUFFICES ASSUME NEW t \in 1..Len(thread), NEW m, In(thread'[t].inbox, m)
               PROVE  Rightly(m, thread[t].key) /\ Numbered(m, call'[m.from])
    BY DEF Lettered
  <2>1. In(thread[t].inbox, m) /\ m.from \in Conns
    BY <1>1, InMessage
  <2>2. Rightly(m, thread[t].key) /\ Numbered(m, call[m.from])
    BY <1>1, <2>1 DEF Lettered
  <2>3. Numbered(m, call'[m.from])
    BY <2>1, <2>2 DEF Numbered, Unmoved, WaitingPlaces
  <2>. QED BY <2>2, <2>3
<1>5. Calling'
  <2> SUFFICES ASSUME NEW c \in Conns PROVE Points(thread', c, call'[c])
    BY DEF Calling
  <2>1. Points(thread', c, call[c])
    BY <1>1, StillPoints DEF Calling
  <2>. QED BY <2>1 DEF Points, Unmoved, OwnPlaces, CenPlaces
<1>. QED BY <1>2, <1>3, <1>4, <1>5 DEF Always

\* A call's own record is as it was.
LEMMA SameCall == ASSUME Always PROVE \A c \in Conns : call[c] \in Call /\ Carries(c, call[c]) /\ Unmoved(call[c], call[c])
BY DEF Always, Shape, Calling, Unmoved

\* One thread that changes.
LEMMA OneKeeps ==
  ASSUME Always, NEW t \in 1..Len(thread), NEW q \in Thread, thread' = [thread EXCEPT ![t] = q],
         q.key = thread[t].key, Fits(q.key, q.people), \A m : In(q.inbox, m) => In(thread[t].inbox, m),
         call' \in [Conns -> Call], \A c \in Conns : Carries(c, call'[c]) /\ Unmoved(call[c], call'[c]),
         file' \in [Keys -> SUBSET Settlers], Saved', UNCHANGED <<case, stopping>>,
         UNCHANGED worlds \/ \E k : worlds' = Restrict(worlds, DOMAIN worlds \ {k})
  PROVE  Always'
<1>1. Shape /\ Lodged
  BY DEF Always
<1>2. /\ thread' \in Seq(Thread) /\ Len(thread') = Len(thread) /\ thread'[t] = q
      /\ \A u \in 1..Len(thread) : u # t => thread'[u] = thread[u]
  BY <1>1, Setting
<1>3. \A u \in 1..Len(thread) :
        /\ thread'[u].key = thread[u].key /\ Fits(thread[u].key, thread'[u].people)
        /\ \A m : In(thread'[u].inbox, m) => In(thread[u].inbox, m)
  BY <1>1, <1>2 DEF Lodged
<1>4. Found'
  <2>1. \A k \in DOMAIN worlds : k \in Keys /\ Runs(thread', worlds[k], k)
    BY <1>1, <1>2, <1>3 DEF Shape, Runs
  <2>2. DOMAIN worlds' \subseteq DOMAIN worlds /\ \A k \in DOMAIN worlds' : worlds'[k] = worlds[k]
    BY DEF Restrict
  <2>. QED BY <2>1, <2>2 DEF Found
<1>5. stopping' \in {"no", "flagged", "joining", "exited"}
  BY <1>1 DEF Shape
<1>. QED BY <1>2, <1>3, <1>4, <1>5, ThreadKeeps

\* What a thread knows of itself.
LEMMA Itself ==
  ASSUME Always, NEW t \in 1..Len(thread)
  PROVE  /\ thread[t] \in Thread /\ thread[t].key \in Keys /\ Fits(thread[t].key, thread[t].people)
         /\ thread[t].inbox \in Seq(Message) /\ thread[t].people \subseteq Settlers
         /\ file \in [Keys -> SUBSET Settlers] /\ Saved /\ call \in [Conns -> Call]
<1>1. thread[t] \in Thread
  BY DEF Always, Shape
<1>. QED BY <1>1 DEF Always, Shape, Lodged, Thread

\* The thread loads its save.
LEMMA BootUpKeeps == ASSUME Always, NEW t \in Threads, BootUp(t), UNCHANGED case PROVE Always'
<1>1. t \in 1..Len(thread)
  BY DEF Threads
<1> DEFINE q == [thread[t] EXCEPT !.st = "up", !.people = file[thread[t].key]]
<1>2. thread' = [thread EXCEPT ![t] = q] /\ UNCHANGED <<worlds, file, call, case, stopping>>
  BY <1>1, Itself DEF BootUp
<1>3. /\ q \in Thread /\ q.key = thread[t].key /\ q.people = file[thread[t].key] /\ q.inbox = thread[t].inbox
  BY <1>1, Itself DEF Thread, Sts
<1>4. Fits(q.key, q.people) /\ Saved' /\ file' \in [Keys -> SUBSET Settlers] /\ call' \in [Conns -> Call]
  BY <1>1, <1>2, <1>3, Itself DEF Saved
<1>5. \A c \in Conns : Carries(c, call'[c]) /\ Unmoved(call[c], call'[c])
  BY <1>2, SameCall
<1> HIDE DEF q
<1>. QED BY <1>1, <1>2, <1>3, <1>4, <1>5, OneKeeps

\* Out of the loop.
LEMMA QuitKeeps == ASSUME Always, NEW t \in Threads, Quit(t), UNCHANGED case PROVE Always'
<1>1. t \in 1..Len(thread)
  BY DEF Threads
<1> DEFINE q == [thread[t] EXCEPT !.st = "leaving"]
<1>2. thread' = [thread EXCEPT ![t] = q] /\ UNCHANGED <<worlds, file, call, case, stopping>>
  BY <1>1, Itself DEF Quit
<1>3. /\ q \in Thread /\ q.key = thread[t].key /\ q.people = thread[t].people /\ q.inbox = thread[t].inbox
  BY <1>1, Itself DEF Thread, Sts
<1>4. Fits(q.key, q.people) /\ Saved' /\ file' \in [Keys -> SUBSET Settlers] /\ call' \in [Conns -> Call]
  BY <1>1, <1>2, <1>3, Itself DEF Saved
<1>5. \A c \in Conns : Carries(c, call'[c]) /\ Unmoved(call[c], call'[c])
  BY <1>2, SameCall
<1> HIDE DEF q
<1>. QED BY <1>1, <1>2, <1>3, <1>4, <1>5, OneKeeps

\* Its entry goes.
LEMMA EndThreadKeeps == ASSUME Always, NEW t \in Threads, EndThread(t), UNCHANGED case PROVE Always'
<1>1. t \in 1..Len(thread)
  BY DEF Threads
<1> DEFINE q == [thread[t] EXCEPT !.st = "ended"]
<1>2. thread' = [thread EXCEPT ![t] = q] /\ UNCHANGED <<file, call, case, stopping>>
      /\ worlds' = Restrict(worlds, DOMAIN worlds \ {thread[t].key})
  BY <1>1, Itself DEF EndThread
<1>3. /\ q \in Thread /\ q.key = thread[t].key /\ q.people = thread[t].people /\ q.inbox = thread[t].inbox
  BY <1>1, Itself DEF Thread, Sts
<1>4. Fits(q.key, q.people) /\ Saved' /\ file' \in [Keys -> SUBSET Settlers] /\ call' \in [Conns -> Call]
  BY <1>1, <1>2, <1>3, Itself DEF Saved
<1>5. \A c \in Conns : Carries(c, call'[c]) /\ Unmoved(call[c], call'[c])
  BY <1>2, SameCall
<1> HIDE DEF q
<1>. QED BY <1>1, <1>2, <1>3, <1>4, <1>5, OneKeeps

\* The final save; the calls it was to answer learn that it will not.
LEMMA CloseKeeps == ASSUME Always, NEW t \in Threads, Close(t), UNCHANGED case PROVE Always'
<1>1. t \in 1..Len(thread) /\ UNCHANGED <<worlds, case, stopping>>
  BY DEF Threads, Close
<1> DEFINE q == [thread[t] EXCEPT !.st = "closed", !.inbox = <<>>, !.guests = {}]
<1>2. thread' = [thread EXCEPT ![t] = q] /\ file' = [file EXCEPT ![thread[t].key] = thread[t].people]
  BY <1>1, Itself DEF Close
<1>3. /\ q \in Thread /\ q.key = thread[t].key /\ q.people = thread[t].people /\ q.inbox = <<>>
  BY <1>1, Itself, InNone DEF Thread, Sts
<1>4. Fits(q.key, q.people) /\ \A m : ~In(q.inbox, m)
  BY <1>1, <1>3, Itself, InNone
<1>5. file' \in [Keys -> SUBSET Settlers] /\ \A k \in Keys : file'[k] = IF k = thread[t].key THEN thread[t].people ELSE file[k]
  BY <1>1, <1>2, Itself
<1>6. Saved'
  BY <1>1, <1>5, Itself DEF Saved
<1>7. \A c \in Conns : call[c] \in Call
  BY SameCall
<1>8. \A c \in Conns : call'[c] = call[c] \/ call'[c] = [call[c] EXCEPT !.ans = Dropped]
  BY DEF Close
<1>9. Dropped \in Answers /\ Dropped.is # "value"
  BY DEF Answers, Dropped
<1>10. \A c \in Conns : call'[c] \in Call /\ Carries(c, call'[c]) /\ Unmoved(call[c], call'[c])
  <2> SUFFICES ASSUME NEW c \in Conns PROVE call'[c] \in Call /\ Carries(c, call'[c]) /\ Unmoved(call[c], call'[c])
    OBVIOUS
  <2>1. CASE call'[c] = call[c]
    BY <2>1, SameCall
  <2>2. CASE call'[c] = [call[c] EXCEPT !.ans = Dropped]
    <3>1. call'[c] \in Call /\ call'[c].ans = Dropped /\ Unmoved(call[c], call'[c])
      BY <1>7, <1>9, <2>2 DEF Call, Unmoved
    <3>2. Carries(c, call[c])
      BY SameCall
    <3>. QED BY <1>9, <3>1, <3>2 DEF Carries, Unmoved
  <2>. QED BY <1>8, <2>1, <2>2
<1>11. call' \in [Conns -> Call]
  <2>1. call' = [c \in Conns |-> call'[c]]
    BY DEF Close
  <2>. QED BY <1>10, <2>1
<1> HIDE DEF q
<1>. QED BY <1>1, <1>2, <1>3, <1>4, <1>5, <1>6, <1>10, <1>11, OneKeeps

\* What a reply does: to a call that waits for it, and to no other.
LEMMA Replying ==
  ASSUME Always, NEW t \in 1..Len(thread), NEW m, In(thread[t].inbox, m), NEW answer \in Answers, call' = Reply(m, answer),
         m.kind \in {"extract", "settlers"} /\ answer.is = "value" => answer.value \subseteq Born[Me(m.from)],
         m.kind \in {"count", "returnees"} /\ answer.is = "value" => answer.value \in Nat
  PROVE  call' \in [Conns -> Call] /\ \A c \in Conns : Carries(c, call'[c]) /\ Unmoved(call[c], call'[c])
<1>1. call \in [Conns -> Call] /\ m.from \in Conns /\ Numbered(m, call[m.from]) /\ \A c \in Conns : call[c] \in Call
  BY InMessage, SameCall DEF Always, Shape, Lettered
<1>2. CASE call' = call
  BY <1>1, <1>2, SameCall
<1>3. CASE /\ call' = [call EXCEPT ![m.from].ans = answer]
           /\ call[m.from].seq = m.seq /\ call[m.from].at \in WaitingPlaces
  <2> DEFINE r == [call[m.from] EXCEPT !.ans = answer]
  <2>1. r \in Call /\ Unmoved(call[m.from], r) /\ r.ans = answer
    BY <1>1 DEF Call, Unmoved
  <2>2. call' = [call EXCEPT ![m.from] = r]
    BY <1>3
  <2>3. m.kind = KindOf(call[m.from].at) /\ Carries(m.from, call[m.from])
    BY <1>1, <1>3, SameCall DEF Numbered
  <2>4. Carries(m.from, r)
    BY <2>1, <2>3 DEF Carries, Unmoved, KindOf, WaitingPlaces
  <2> HIDE DEF r
  <2>5. call' \in [Conns -> Call] /\ \A c \in Conns : call'[c] = IF c = m.from THEN r ELSE call[c]
    BY <1>1, <2>1, <2>2
  <2>. QED BY <2>1, <2>4, <2>5, SameCall
<1>. QED BY <1>2, <1>3 DEF Reply

\* Of a group, no more than there is room for.
LEMMA LeastOf ==
  ASSUME NEW G \in SUBSET Settlers, NEW n \in Nat
  PROVE  /\ Least(G, n) \subseteq G /\ IsFiniteSet(Least(G, n))
         /\ Cardinality(Least(G, n)) = IF Cardinality(G) < n THEN Cardinality(G) ELSE n
         /\ Cardinality(G) \in Nat
<1>1. G \in SUBSET Nat /\ IsFiniteSet(G)
  BY ManagerAssumption, FS_Subset
<1>2. Least(G, n) \subseteq G
  BY DEF Least
<1>3. IsFiniteSet(Least(G, n)) /\ Cardinality(G) \in Nat
  BY <1>1, <1>2, FS_Subset, FS_CardinalityType
<1>4. Cardinality(Least(G, n)) = IF Cardinality(G) < n THEN Cardinality(G) ELSE n
  BY <1>1, LowestCount DEF Least
<1>. QED BY <1>2, <1>3, <1>4

\* Those admitted fit.
LEMMA AdmittedFits ==
  ASSUME NEW a \in Accounts, NEW S, Fits(Central, S), NEW G \in SUBSET Born[a]
  PROVE  Admitted(a, S, G) \subseteq G /\ Fits(Central, S \cup Admitted(a, S, G))
<1>1. S \subseteq Settlers /\ G \subseteq Settlers /\ GroupCap \in Nat /\ Central \notin Accounts
  BY ManagerAssumption DEF Fits
<1>2. \A b \in Accounts : /\ IsFiniteSet(Owned(b, S)) /\ Cardinality(Owned(b, S)) \in Nat
                         /\ Cardinality(Owned(b, S)) <= GroupCap
  <2> SUFFICES ASSUME NEW b \in Accounts PROVE IsFiniteSet(Owned(b, S)) /\ Cardinality(Owned(b, S)) \in Nat
    BY DEF Fits
  <2>1. Owned(b, S) \in SUBSET Settlers
    BY <1>1 DEF Owned
  <2>2. IsFiniteSet(Owned(b, S))
    BY <2>1, ManagerAssumption, FS_Subset
  <2>. QED BY <2>2, FS_CardinalityType
<1> DEFINE n == Cardinality(Owned(a, S))
           room == IF n < GroupCap THEN GroupCap - n ELSE 0
           A == Least(G, room)
<1>3. room \in Nat /\ n + room = GroupCap /\ n \in Nat
  BY <1>1, <1>2
<1>4. Admitted(a, S, G) = A
  BY DEF Admitted
<1>5. A \subseteq G /\ IsFiniteSet(A) /\ Cardinality(A) \in Nat /\ Cardinality(A) <= room
  <2>1. A \subseteq G /\ IsFiniteSet(A) /\ Cardinality(A) = (IF Cardinality(G) < room THEN Cardinality(G) ELSE room) /\ Cardinality(G) \in Nat
    BY <1>1, <1>3, LeastOf
  <2> HIDE DEF A, room
  <2>. QED BY <1>3, <2>1
<1> HIDE DEF A, room
<1>6. ASSUME NEW b \in Accounts PROVE Cardinality(Owned(b, S \cup A)) <= GroupCap
  <2>1. CASE b = a
    <3>1. Owned(a, S \cup A) = Owned(a, S) \cup A
      BY <1>5 DEF Owned
    <3>2. /\ Cardinality(Owned(a, S) \cup A) = n + Cardinality(A) - Cardinality(Owned(a, S) \cap A)
          /\ Cardinality(Owned(a, S) \cap A) \in Nat
      <4>1. IsFiniteSet(Owned(a, S))
        BY <1>2
      <4>2. IsFiniteSet(Owned(a, S) \cap A)
        BY <1>5, FS_Subset
      <4>. QED BY <1>5, <4>1, <4>2, FS_Union, FS_CardinalityType
    <3> DEFINE i == Cardinality(Owned(a, S) \cap A)
               x == Cardinality(Owned(a, S) \cup A)
               y == Cardinality(A)
    <3>3. x = n + y - i /\ i \in Nat /\ y \in Nat /\ y <= room
      BY <1>5, <3>2
    <3> HIDE DEF n, i, x, y
    <3>4. x <= GroupCap
      BY <1>1, <1>3, <3>3
    <3>. QED BY <2>1, <3>1, <3>4 DEF x
  <2>2. CASE b # a
    <3>1. Born[a] \cap Born[b] = {}
      BY <2>2, ManagerAssumption
    <3>2. Owned(b, S \cup A) = Owned(b, S)
      BY <1>5, <3>1 DEF Owned
    <3>. QED BY <1>2, <3>2
  <2>. QED BY <2>1, <2>2
<1>7. Fits(Central, S \cup A)
  BY <1>1, <1>5, <1>6 DEF Fits
<1>. QED BY <1>4, <1>5, <1>7

-----------------------------------------------------------------------------
(* One message *)

Hearing(t, people, guests) ==
  [thread[t] EXCEPT !.inbox = Tail(thread[t].inbox), !.people = people, !.guests = guests]

\* What a thread makes of its first message.
LEMMA HandleIs ==
  ASSUME Always, NEW t \in Threads, Handle(t), NEW m, m = Head(thread[t].inbox), NEW S, S = thread[t].people
  PROVE  /\ thread[t].inbox # <<>> /\ UNCHANGED <<worlds, file, stopping>>
         /\ \E people, guests :
              /\ thread' = [thread EXCEPT ![t] = Hearing(t, people, guests)]
              /\ \/ /\ m.kind = "join" /\ people = S /\ guests = thread[t].guests \cup {m.from}
                    /\ call' = Reply(m, Answer({}))
                 \/ /\ m.kind = "count" /\ people = S /\ guests = thread[t].guests
                    /\ call' = Reply(m, Answer(Cardinality(Owned(Me(m.from), S))))
                 \/ /\ m.kind = "extract" /\ people = S /\ guests = thread[t].guests
                    /\ call' = Reply(m, Ungraduated)
                 \/ /\ m.kind = "extract" /\ guests = thread[t].guests
                    /\ \E gone \in SUBSET S : /\ Cardinality(gone) = MayLeave(S, m.arg) /\ people = S \ gone
                                              /\ call' = Reply(m, Answer(gone))
                 \/ /\ m.kind = "inject" /\ people = S \cup Admitted(Me(m.from), S, m.arg) /\ guests = thread[t].guests
                    /\ UNCHANGED call
                 \/ /\ m.kind = "settlers" /\ people = S \ Born[Me(m.from)] /\ guests = thread[t].guests
                    /\ call' = Reply(m, Answer(Owned(Me(m.from), S)))
                 \/ /\ m.kind = "returnees" /\ guests = thread[t].guests
                    /\ \E n \in 0..Smaller(Room(S), Cardinality(m.arg)) :
                         call' = Reply(m, Answer(n)) /\ people = S \cup Least(m.arg, n)
<1>1. /\ t \in 1..Len(thread) /\ thread \in Seq(Thread) /\ thread[t] \in Thread
      /\ thread[t].inbox # <<>> /\ UNCHANGED <<worlds, file, stopping>>
  BY Itself DEF Handle, Threads, Always, Shape
<1> DEFINE Becomes(people, guests) == thread' = [thread EXCEPT ![t] = Hearing(t, people, guests)]
<1>2. ASSUME NEW people, thread' = [thread EXCEPT ![t].inbox = Tail(@), ![t].people = people]
      PROVE  Becomes(people, thread[t].guests)
  <2>1. [[thread[t] EXCEPT !.inbox = Tail(thread[t].inbox)] EXCEPT !.people = people] = Hearing(t, people, thread[t].guests)
    BY <1>1 DEF Hearing, Thread
  <2>. QED BY <1>1, <1>2, <2>1
<1>3. ASSUME NEW guests, thread' = [thread EXCEPT ![t].inbox = Tail(@), ![t].guests = thread[t].guests \cup guests]
      PROVE  Becomes(S, thread[t].guests \cup guests)
  <2>1. [[thread[t] EXCEPT !.inbox = Tail(thread[t].inbox)] EXCEPT !.guests = thread[t].guests \cup guests]
          = Hearing(t, S, thread[t].guests \cup guests)
    BY <1>1 DEF Hearing, Thread
  <2>. QED BY <1>1, <1>3, <2>1
<1>4. \/ /\ m.kind = "join" /\ thread' = [thread EXCEPT ![t].inbox = Tail(@), ![t].guests = thread[t].guests \cup {m.from}]
         /\ call' = Reply(m, Answer({}))
      \/ /\ m.kind = "count" /\ thread' = [thread EXCEPT ![t].inbox = Tail(@), ![t].people = S]
         /\ call' = Reply(m, Answer(Cardinality(Owned(Me(m.from), S))))
      \/ /\ m.kind = "extract" /\ thread' = [thread EXCEPT ![t].inbox = Tail(@), ![t].people = S]
         /\ call' = Reply(m, Ungraduated)
      \/ /\ m.kind = "extract"
         /\ \E gone \in SUBSET S : /\ Cardinality(gone) = MayLeave(S, m.arg)
              /\ thread' = [thread EXCEPT ![t].inbox = Tail(@), ![t].people = S \ gone]
              /\ call' = Reply(m, Answer(gone))
      \/ /\ m.kind = "inject" /\ UNCHANGED call
         /\ thread' = [thread EXCEPT ![t].inbox = Tail(@), ![t].people = S \cup Admitted(Me(m.from), S, m.arg)]
      \/ /\ m.kind = "settlers" /\ thread' = [thread EXCEPT ![t].inbox = Tail(@), ![t].people = S \ Born[Me(m.from)]]
         /\ call' = Reply(m, Answer(Owned(Me(m.from), S)))
      \/ /\ m.kind = "returnees"
         /\ \E n \in 0..Smaller(Room(S), Cardinality(m.arg)) :
              /\ thread' = [thread EXCEPT ![t].inbox = Tail(@), ![t].people = S \cup Least(m.arg, n)]
              /\ call' = Reply(m, Answer(n))
  BY <1>1 DEF Handle
<1> HIDE DEF Becomes
<1>5. \E people, guests :
              /\ Becomes(people, guests)
              /\ \/ /\ m.kind = "join" /\ people = S /\ guests = thread[t].guests \cup {m.from}
                    /\ call' = Reply(m, Answer({}))
                 \/ /\ m.kind = "count" /\ people = S /\ guests = thread[t].guests
                    /\ call' = Reply(m, Answer(Cardinality(Owned(Me(m.from), S))))
                 \/ /\ m.kind = "extract" /\ people = S /\ guests = thread[t].guests
                    /\ call' = Reply(m, Ungraduated)
                 \/ /\ m.kind = "extract" /\ guests = thread[t].guests
                    /\ \E gone \in SUBSET S : /\ Cardinality(gone) = MayLeave(S, m.arg) /\ people = S \ gone
                                              /\ call' = Reply(m, Answer(gone))
                 \/ /\ m.kind = "inject" /\ people = S \cup Admitted(Me(m.from), S, m.arg) /\ guests = thread[t].guests
                    /\ UNCHANGED call
                 \/ /\ m.kind = "settlers" /\ people = S \ Born[Me(m.from)] /\ guests = thread[t].guests
                    /\ call' = Reply(m, Answer(Owned(Me(m.from), S)))
                 \/ /\ m.kind = "returnees" /\ guests = thread[t].guests
                    /\ \E n \in 0..Smaller(Room(S), Cardinality(m.arg)) :
                         call' = Reply(m, Answer(n)) /\ people = S \cup Least(m.arg, n)
  <2>1. CASE m.kind = "join" /\ thread' = [thread EXCEPT ![t].inbox = Tail(@), ![t].guests = thread[t].guests \cup {m.from}]
             /\ call' = Reply(m, Answer({}))
    <3>1. Becomes(S, thread[t].guests \cup {m.from})
      BY <1>3, <2>1
    <3>. QED BY <2>1, <3>1
  <2>2. CASE m.kind = "count" /\ thread' = [thread EXCEPT ![t].inbox = Tail(@), ![t].people = S]
             /\ call' = Reply(m, Answer(Cardinality(Owned(Me(m.from), S))))
    <3>1. Becomes(S, thread[t].guests)
      BY <1>2, <2>2
    <3>. QED BY <2>2, <3>1
  <2>3. CASE m.kind = "extract" /\ thread' = [thread EXCEPT ![t].inbox = Tail(@), ![t].people = S]
             /\ call' = Reply(m, Ungraduated)
    <3>1. Becomes(S, thread[t].guests)
      BY <1>2, <2>3
    <3>. QED BY <2>3, <3>1
  <2>4. CASE /\ m.kind = "extract"
             /\ \E gone \in SUBSET S : /\ Cardinality(gone) = MayLeave(S, m.arg)
                  /\ thread' = [thread EXCEPT ![t].inbox = Tail(@), ![t].people = S \ gone]
                  /\ call' = Reply(m, Answer(gone))
    <3>1. PICK gone \in SUBSET S : /\ Cardinality(gone) = MayLeave(S, m.arg)
                  /\ thread' = [thread EXCEPT ![t].inbox = Tail(@), ![t].people = S \ gone]
                  /\ call' = Reply(m, Answer(gone))
      BY <2>4
    <3>2. Becomes(S \ gone, thread[t].guests)
      BY <1>2, <3>1
    <3>. QED BY <2>4, <3>1, <3>2
  <2>5. CASE /\ m.kind = "inject" /\ UNCHANGED call
             /\ thread' = [thread EXCEPT ![t].inbox = Tail(@), ![t].people = S \cup Admitted(Me(m.from), S, m.arg)]
    <3>1. Becomes(S \cup Admitted(Me(m.from), S, m.arg), thread[t].guests)
      BY <1>2, <2>5
    <3>. QED BY <2>5, <3>1
  <2>6. CASE m.kind = "settlers" /\ thread' = [thread EXCEPT ![t].inbox = Tail(@), ![t].people = S \ Born[Me(m.from)]]
             /\ call' = Reply(m, Answer(Owned(Me(m.from), S)))
    <3>1. Becomes(S \ Born[Me(m.from)], thread[t].guests)
      BY <1>2, <2>6
    <3>. QED BY <2>6, <3>1
  <2>7. CASE /\ m.kind = "returnees"
             /\ \E n \in 0..Smaller(Room(S), Cardinality(m.arg)) :
                  /\ thread' = [thread EXCEPT ![t].inbox = Tail(@), ![t].people = S \cup Least(m.arg, n)]
                  /\ call' = Reply(m, Answer(n))
    <3>1. PICK n \in 0..Smaller(Room(S), Cardinality(m.arg)) :
                  /\ thread' = [thread EXCEPT ![t].inbox = Tail(@), ![t].people = S \cup Least(m.arg, n)]
                  /\ call' = Reply(m, Answer(n))
      BY <2>7
    <3>2. Becomes(S \cup Least(m.arg, n), thread[t].guests)
      BY <1>2, <3>1
    <3>. QED BY <2>7, <3>1, <3>2
  <2>. QED BY <1>4, <2>1, <2>2, <2>3, <2>4, <2>5, <2>6, <2>7
<1>. QED BY <1>1, <1>5 DEF Becomes

\* Whatever the message, people who fit and answers to what was asked.
LEMMA HandleKeeps == ASSUME Always, NEW t \in Threads, Handle(t), UNCHANGED case PROVE Always'
<1>1. t \in 1..Len(thread)
  BY DEF Threads
<1> DEFINE m == Head(thread[t].inbox)
           S == thread[t].people
<1>2. thread[t].inbox # <<>> /\ UNCHANGED <<worlds, file, stopping>>
  BY HandleIs
<1>3. /\ thread[t] \in Thread /\ thread[t].inbox \in Seq(Message) /\ Fits(thread[t].key, S) /\ S \in SUBSET Settlers
      /\ file \in [Keys -> SUBSET Settlers] /\ Saved /\ call \in [Conns -> Call] /\ thread[t].key \in Keys
  BY <1>1, Itself
<1>4. /\ Tail(thread[t].inbox) \in Seq(Message) /\ m \in Message /\ In(thread[t].inbox, m)
      /\ \A x : In(Tail(thread[t].inbox), x) => In(thread[t].inbox, x)
  BY <1>2, <1>3, InTail
<1>5. Rightly(m, thread[t].key) /\ m.from \in Conns /\ Me(m.from) \in Accounts /\ Me(m.from) # Central
  BY <1>1, <1>4, InMessage, Knows DEF Always, Lettered
<1>6. /\ IsFiniteSet(S) /\ \A T \in SUBSET S : Cardinality(T) \in Nat
      /\ Answer({}) \in Answers /\ \A n \in Nat : Answer(n) \in Answers /\ \A T \in SUBSET S : Answer(T) \in Answers
      /\ \A v : Answer(v).value = v
  <2>1. IsFiniteSet(S) /\ \A T \in SUBSET S : Cardinality(T) \in Nat
    BY <1>3, ManagerAssumption, FS_Subset, FS_CardinalityType
  <2>2. \A v \in Nat \cup SUBSET Settlers : Answer(v) \in Answers
    BY DEF Answer, Answers
  <2>. QED BY <1>3, <2>1, <2>2 DEF Answer
<1> HIDE DEF m, S
<1>7. PICK people, guests :
              /\ thread' = [thread EXCEPT ![t] = Hearing(t, people, guests)]
              /\ \/ /\ m.kind = "join" /\ people = S /\ guests = thread[t].guests \cup {m.from}
                    /\ call' = Reply(m, Answer({}))
                 \/ /\ m.kind = "count" /\ people = S /\ guests = thread[t].guests
                    /\ call' = Reply(m, Answer(Cardinality(Owned(Me(m.from), S))))
                 \/ /\ m.kind = "extract" /\ people = S /\ guests = thread[t].guests
                    /\ call' = Reply(m, Ungraduated)
                 \/ /\ m.kind = "extract" /\ guests = thread[t].guests
                    /\ \E gone \in SUBSET S : /\ Cardinality(gone) = MayLeave(S, m.arg) /\ people = S \ gone
                                              /\ call' = Reply(m, Answer(gone))
                 \/ /\ m.kind = "inject" /\ people = S \cup Admitted(Me(m.from), S, m.arg) /\ guests = thread[t].guests
                    /\ UNCHANGED call
                 \/ /\ m.kind = "settlers" /\ people = S \ Born[Me(m.from)] /\ guests = thread[t].guests
                    /\ call' = Reply(m, Answer(Owned(Me(m.from), S)))
                 \/ /\ m.kind = "returnees" /\ guests = thread[t].guests
                    /\ \E n \in 0..Smaller(Room(S), Cardinality(m.arg)) :
                         call' = Reply(m, Answer(n)) /\ people = S \cup Least(m.arg, n)
  BY HandleIs DEF m, S
<1> DEFINE Kept == /\ Fits(thread[t].key, people) /\ guests \in SUBSET Conns /\ call' \in [Conns -> Call]
                   /\ \A c \in Conns : Carries(c, call'[c]) /\ Unmoved(call[c], call'[c])
<1>8. guests \in SUBSET Conns
  BY <1>3, <1>5, <1>7 DEF Thread
<1>9. ASSUME NEW P \in SUBSET S PROVE Fits(thread[t].key, P)
  <2>1. \A a \in Accounts : Owned(a, P) \in SUBSET Owned(a, S) /\ IsFiniteSet(Owned(a, S)) /\ IsFiniteSet(Owned(a, P))
    BY <1>6, FS_Subset DEF Owned
  <2>2. \A a \in Accounts : /\ Cardinality(Owned(a, P)) <= Cardinality(Owned(a, S))
                           /\ Cardinality(Owned(a, P)) \in Nat /\ Cardinality(Owned(a, S)) \in Nat
    BY <2>1, FS_Subset, FS_CardinalityType
  <2>3. GroupCap \in Nat
    BY ManagerAssumption
  <2>. QED BY <1>3, <2>2, <2>3 DEF Fits
<1>10. Kept
  <2>1. CASE m.kind = "join" /\ people = S /\ call' = Reply(m, Answer({}))
    BY <1>1, <1>3, <1>4, <1>6, <1>8, <2>1, Replying
  <2>2. CASE m.kind = "count" /\ people = S /\ call' = Reply(m, Answer(Cardinality(Owned(Me(m.from), S))))
    <3>1. Cardinality(Owned(Me(m.from), S)) \in Nat
      BY <1>6 DEF Owned
    <3>. QED BY <1>1, <1>3, <1>4, <1>6, <1>8, <2>2, <3>1, Replying
  <2>3. CASE m.kind = "extract" /\ people = S /\ call' = Reply(m, Ungraduated)
    <3>1. Ungraduated \in Answers /\ Ungraduated.is # "value"
      BY DEF Answers, Ungraduated
    <3>. QED BY <1>1, <1>3, <1>4, <1>8, <2>3, <3>1, Replying
  <2>4. CASE m.kind = "extract" /\ \E gone \in SUBSET S : people = S \ gone /\ call' = Reply(m, Answer(gone))
    <3>1. PICK gone \in SUBSET S : people = S \ gone /\ call' = Reply(m, Answer(gone))
      BY <2>4
    <3>2. gone \subseteq Born[Me(m.from)]
      BY <1>3, <1>5, <2>4 DEF Rightly, Fits
    <3>3. Fits(thread[t].key, people)
      BY <1>9, <3>1
    <3>. QED BY <1>1, <1>4, <1>6, <1>8, <2>4, <3>1, <3>2, <3>3, Replying
  <2>5. CASE m.kind = "inject" /\ people = S \cup Admitted(Me(m.from), S, m.arg) /\ UNCHANGED call
    <3>1. thread[t].key = Central /\ m.arg \in SUBSET Born[Me(m.from)]
      BY <1>5, <2>5 DEF Rightly
    <3>2. Fits(Central, people)
      BY <1>3, <1>5, <2>5, <3>1, AdmittedFits
    <3>. QED BY <1>3, <1>8, <2>5, <3>1, <3>2, SameCall
  <2>6. CASE m.kind = "settlers" /\ people = S \ Born[Me(m.from)] /\ call' = Reply(m, Answer(Owned(Me(m.from), S)))
    <3>1. Owned(Me(m.from), S) \in SUBSET S /\ Owned(Me(m.from), S) \subseteq Born[Me(m.from)]
      BY DEF Owned
    <3>2. Fits(thread[t].key, people)
      BY <1>9, <2>6
    <3>. QED BY <1>1, <1>4, <1>6, <1>8, <2>6, <3>1, <3>2, Replying
  <2>7. CASE /\ m.kind = "returnees"
             /\ \E n \in 0..Smaller(Room(S), Cardinality(m.arg)) : call' = Reply(m, Answer(n)) /\ people = S \cup Least(m.arg, n)
    <3>1. PICK n \in 0..Smaller(Room(S), Cardinality(m.arg)) : call' = Reply(m, Answer(n)) /\ people = S \cup Least(m.arg, n)
      BY <2>7
    <3>2. thread[t].key = Me(m.from) /\ m.arg \subseteq Born[Me(m.from)] /\ Least(m.arg, n) \subseteq m.arg
      BY <1>5, <2>7 DEF Rightly, Least
    <3>3. n \in Nat
      OBVIOUS
    <3>4. Fits(thread[t].key, people)
      BY <1>3, <1>5, <3>1, <3>2, ManagerAssumption DEF Fits
    <3>. QED BY <1>1, <1>4, <1>6, <1>8, <2>7, <3>1, <3>3, <3>4, Replying
  <2>. QED BY <1>7, <2>1, <2>2, <2>3, <2>4, <2>5, <2>6, <2>7
<1> DEFINE q == Hearing(t, people, guests)
<1>11. people \in SUBSET Settlers
  BY <1>10 DEF Fits
<1>12. q \in Thread /\ q.key = thread[t].key /\ q.people = people /\ q.inbox = Tail(thread[t].inbox)
  BY <1>3, <1>4, <1>8, <1>11 DEF Hearing, Thread
<1>13. thread' = [thread EXCEPT ![t] = q] /\ Saved' /\ file' \in [Keys -> SUBSET Settlers]
  BY <1>2, <1>3, <1>7 DEF Saved
<1> HIDE DEF q
<1>. QED BY <1>1, <1>2, <1>4, <1>10, <1>12, <1>13, OneKeeps

-----------------------------------------------------------------------------
(* The steps of many *)

\* Every thread is as it was but for its guests or its flag.
LEMMA AllKeep ==
  ASSUME Always, NEW f, thread' = [t \in Threads |-> f[t]],
         \A t \in Threads : /\ f[t] \in Thread /\ f[t].key = thread[t].key /\ f[t].people = thread[t].people
                            /\ f[t].inbox = thread[t].inbox
  PROVE  /\ thread' \in Seq(Thread) /\ Len(thread') = Len(thread)
         /\ \A t \in 1..Len(thread) :
              /\ thread'[t].key = thread[t].key /\ Fits(thread[t].key, thread'[t].people)
              /\ \A m : In(thread'[t].inbox, m) => In(thread[t].inbox, m)
<1>1. Shape /\ Lodged /\ Len(thread) \in Nat
  BY DEF Always, Shape
<1>2. thread' \in [1..Len(thread) -> Thread]
  BY DEF Threads
<1>3. thread' \in Seq(Thread) /\ Len(thread') = Len(thread)
  <2>1. thread' \in UNION {[1..n -> Thread] : n \in Nat}
    BY <1>1, <1>2
  <2>. QED BY <1>1, <1>2, <2>1
<1>. QED BY <1>1, <1>3 DEF Lodged, Threads

\* A client asks to go somewhere, and leaves where it was.
LEMMA BeginKeeps ==
  ASSUME Always, NEW c \in Conns, NEW goal \in {"login", "central", "home"}, Begin(c, goal), UNCHANGED case
  PROVE  Always'
<1> DEFINE f == [t \in Threads |-> [thread[t] EXCEPT !.guests = thread[t].guests \ {c}]]
           r == [Outside EXCEPT !.goal = goal, !.seq = call[c].seq, !.at = IF goal = "login" THEN "own" ELSE "lock"]
<1>1. \A t \in Threads : /\ f[t] \in Thread /\ f[t].key = thread[t].key /\ f[t].people = thread[t].people
                         /\ f[t].inbox = thread[t].inbox
  BY Itself DEF Threads, Thread
<1>2. thread' = [t \in Threads |-> f[t]] /\ Turns(c, r) /\ UNCHANGED <<worlds, file, stopping>>
  BY DEF Begin, Turns
<1>3. /\ r \in Call /\ r.at = (IF goal = "login" THEN "own" ELSE "lock") /\ r.goal = goal /\ r.seq = call[c].seq
      /\ r.held = {} /\ r.want = 0 /\ r.ans = Waiting
  BY Knows DEF Outside, Call, Places, Goals, Answers
<1>4. Carries(c, r)
  BY <1>3, Knows DEF Carries, WaitingPlaces, Aimed
<1> HIDE DEF f, r
<1>5. /\ thread' \in Seq(Thread) /\ Len(thread') = Len(thread)
      /\ \A t \in 1..Len(thread) :
              /\ thread'[t].key = thread[t].key /\ Fits(thread[t].key, thread'[t].people)
              /\ \A m : In(thread'[t].inbox, m) => In(thread[t].inbox, m)
  BY <1>1, <1>2, AllKeep
<1>6. call' \in [Conns -> Call] /\ call'[c] = r /\ \A d \in Conns : d # c => call'[d] = call[d]
  BY <1>2, <1>3, Turning DEF Always
<1>7. \A d \in Conns : Carries(d, call'[d]) /\ (Unmoved(call[d], call'[d]) \/
        (call'[d].at \in {"own", "lock"} /\ call'[d].goal \in {"login", "home", "central"} /\ call'[d].seq = call[d].seq
            /\ (call'[d].at = "own" => call'[d].goal # "central")))
  BY <1>3, <1>4, <1>6, SameCall
<1>8. Found'
  BY <1>2, <1>5 DEF Always, Shape, Found, Runs
<1>9. file' \in [Keys -> SUBSET Settlers] /\ Saved' /\ stopping' \in {"no", "flagged", "joining", "exited"}
  BY <1>2 DEF Always, Shape, Saved
<1>. QED BY <1>5, <1>6, <1>7, <1>8, <1>9, ThreadKeeps

\* The threads there is an entry for are told to stop.
LEMMA StopAllKeeps == ASSUME Always, StopAll, UNCHANGED case PROVE Always'
<1> DEFINE f == [t \in Threads |-> IF \E k \in DOMAIN worlds : worlds[k] = t
                                     THEN [thread[t] EXCEPT !.flag = TRUE] ELSE thread[t]]
<1>1. \A t \in Threads : /\ f[t] \in Thread /\ f[t].key = thread[t].key /\ f[t].people = thread[t].people
                         /\ f[t].inbox = thread[t].inbox
  BY Itself DEF Threads, Thread
<1>2. thread' = [t \in Threads |-> f[t]] /\ stopping' = "flagged" /\ UNCHANGED <<worlds, file, call>>
  BY DEF StopAll
<1> HIDE DEF f
<1>3. /\ thread' \in Seq(Thread) /\ Len(thread') = Len(thread)
      /\ \A t \in 1..Len(thread) :
              /\ thread'[t].key = thread[t].key /\ Fits(thread[t].key, thread'[t].people)
              /\ \A m : In(thread'[t].inbox, m) => In(thread[t].inbox, m)
  BY <1>1, <1>2, AllKeep
<1>4. Found'
  BY <1>2, <1>3 DEF Always, Shape, Found, Runs
<1>5. /\ file' \in [Keys -> SUBSET Settlers] /\ Saved' /\ call' \in [Conns -> Call]
      /\ \A d \in Conns : Carries(d, call'[d]) /\ Unmoved(call[d], call'[d])
  BY <1>2, SameCall DEF Always, Shape, Saved
<1>. QED BY <1>2, <1>3, <1>4, <1>5, ThreadKeeps

\* Nothing moves but what main has come to.
LEMMA RestKeeps ==
  ASSUME Always, UNCHANGED <<thread, file, call, case>>, Found', stopping' \in {"no", "flagged", "joining", "exited"}
  PROVE  Always'
<1>1. Shape /\ Lodged /\ Lettered /\ Saved /\ Calling
  BY DEF Always
<1>2. Shape'
  BY <1>1 DEF Shape, Found
<1>3. Lodged' /\ Lettered' /\ Saved' /\ Calling'
  BY <1>1 DEF Lodged, Lettered, Saved, Calling
<1>. QED BY <1>2, <1>3 DEF Always

\* The map is drained, and main returns.
LEMMA MainKeeps == ASSUME Always, JoinAll \/ MainReturns, UNCHANGED case PROVE Always'
<1>1. CASE JoinAll
  <2>1. Found'
    BY <1>1 DEF JoinAll, Found
  <2>. QED BY <1>1, <2>1, RestKeeps DEF JoinAll
<1>2. CASE MainReturns
  <2>1. Found'
    BY <1>2 DEF MainReturns, Always, Shape, Found
  <2>. QED BY <1>2, <2>1, RestKeeps DEF MainReturns
<1>. QED BY <1>1, <1>2

\* No world runs and no call is made at first.
LEMMA AtFirst == ASSUME Init PROVE Always
<1>1. Outside \in Call /\ Outside.at = "out" /\ Outside.held = {} /\ Outside.want = 0
  BY DEF Outside, Call, Places, Goals, Answers
<1>2. thread \in Seq(Thread) /\ Len(thread) = 0
  BY DEF Init
<1>3. \A a \in Accounts : Born[a] \subseteq Settlers
  BY ManagerAssumption
<1>4. file \in [Keys -> SUBSET Settlers]
  BY <1>3 DEF Init, Keys
<1>5. call \in [Conns -> Call] /\ \A c \in Conns : call[c] = Outside
  BY <1>1 DEF Init
<1>6. Shape
  BY <1>2, <1>4, <1>5 DEF Init, Shape
<1>7. Lodged /\ Lettered
  BY <1>2 DEF Lodged, Lettered
<1>8. Saved
  <2> SUFFICES ASSUME NEW k \in Keys PROVE Fits(k, file[k])
    BY DEF Saved
  <2>1. CASE k = Central
    <3>1. file[k] = {} /\ k \notin Accounts
      BY <2>1, ManagerAssumption DEF Init
    <3>2. \A a : Owned(a, {}) = {}
      BY DEF Owned
    <3>3. Cardinality({}) = 0 /\ GroupCap \in Nat
      BY FS_EmptySet, ManagerAssumption
    <3>. QED BY <3>1, <3>2, <3>3 DEF Fits
  <2>2. CASE k # Central
    BY <1>3, <2>2 DEF Fits, Keys, Init
  <2>. QED BY <2>1, <2>2
<1>9. Calling
  <2>1. \A c \in Conns : Carries(c, Outside) /\ Points(thread, c, Outside)
    BY <1>1, ManagerAssumption DEF Carries, Points, WaitingPlaces, OwnPlaces, CenPlaces, Aimed
  <2>. QED BY <1>5, <2>1 DEF Calling
<1>. QED BY <1>6, <1>7, <1>8, <1>9 DEF Always

\* A call's next step.
LEMMA CallsKeep == ASSUME Always, NEW c \in Conns, Calls(c) PROVE Always'
<1>1. UNCHANGED case /\ CallStep(c)
  BY DEF Calls
<1>2. \/ Lock(c) \/ Own(c) \/ JoinOwn(c) \/ Joining(c) \/ ForgetOwn(c) \/ OwnAgain(c)
      \/ Cen(c) \/ Count(c) \/ Counting(c) \/ Stale(c) \/ Recheck(c)
      \/ Extract(c) \/ Extracting(c) \/ Inject(c) \/ Enter(c) \/ Entering(c)
      \/ Find(c) \/ Fetch(c) \/ Fetching(c) \/ Settle(c) \/ Settling(c) \/ PutBack(c)
  BY <1>1 DEF CallStep
<1>3. CASE Lock(c) \/ Own(c) \/ JoinOwn(c) \/ Joining(c) \/ ForgetOwn(c) \/ OwnAgain(c)
  BY <1>1, <1>3, LockKeeps, OwnKeeps, JoinOwnKeeps, JoiningKeeps, ForgetOwnKeeps, OwnAgainKeeps
<1>4. CASE Cen(c) \/ Count(c) \/ Counting(c) \/ Stale(c) \/ Recheck(c)
  BY <1>1, <1>4, CenKeeps, CountKeeps, CountingKeeps, StaleKeeps, RecheckKeeps
<1>5. CASE Extract(c) \/ Extracting(c) \/ Inject(c) \/ Enter(c) \/ Entering(c)
  BY <1>1, <1>5, ExtractKeeps, ExtractingKeeps, InjectKeeps, EnterKeeps, EnteringKeeps
<1>6. CASE Find(c) \/ Fetch(c) \/ Fetching(c) \/ Settle(c) \/ Settling(c) \/ PutBack(c)
  BY <1>1, <1>6, FindKeeps, FetchKeeps, FetchingKeeps, SettleKeeps, SettlingKeeps, PutBackKeeps
<1>. QED BY <1>2, <1>3, <1>4, <1>5, <1>6

\* A thread's next step.
LEMMA LivesKeep == ASSUME Always, NEW t \in Threads, Lives(t) PROVE Always'
BY BootUpKeeps, HandleKeeps, QuitKeeps, CloseKeeps, EndThreadKeeps DEF Lives, ThreadStep

\* Any step at all.
LEMMA NextKeeps == ASSUME Always, [Next]_vars PROVE Always' /\ UNCHANGED case
<1> SUFFICES Always'
  BY DEF Next, vars, Calls, Lives, JoinsAll, Exits
<1>1. CASE \E c \in Conns : \E goal \in {"login", "central", "home"} : Begin(c, goal) /\ UNCHANGED case
  BY <1>1, BeginKeeps
<1>2. CASE \E c \in Conns : Calls(c)
  BY <1>2, CallsKeep
<1>3. CASE \E t \in Threads : Lives(t)
  BY <1>3, LivesKeep
<1>4. CASE StopAll /\ UNCHANGED case
  BY <1>4, StopAllKeeps
<1>5. CASE JoinsAll \/ Exits
  BY <1>5, MainKeeps DEF JoinsAll, Exits
<1>6. CASE UNCHANGED vars
  <2>1. Found' /\ stopping' \in {"no", "flagged", "joining", "exited"}
    BY <1>6 DEF vars, Always, Shape, Found
  <2>. QED BY <1>6, <2>1, RestKeeps DEF vars
<1>. QED BY <1>1, <1>2, <1>3, <1>4, <1>5, <1>6 DEF Next

\* Who lives where, what is on its way and what every call knows: always of
\* the right account, at the right world, and in the right number.
THEOREM ManagerInductive == Spec => []Always
<1>. QED BY AtFirst, NextKeeps, PTL DEF Spec

\* However entries, returns, waits that run out, restarts and late deliveries
\* interleave, no simulation and no save of the central world holds more of an
\* account's settlers than the cap.
THEOREM CapAlwaysHolds == Spec => []GroupWithinCap
<1>1. Always => GroupWithinCap
  <2> SUFFICES ASSUME Always PROVE GroupWithinCap
    OBVIOUS
  <2>1. Fits(Central, file[Central])
    BY DEF Always, Saved, Keys
  <2>2. \A t \in Threads : Fits(thread[t].key, thread[t].people)
    BY DEF Always, Lodged, Threads
  <2>. QED BY <2>1, <2>2 DEF Fits, GroupWithinCap
<1>. QED BY <1>1, ManagerInductive, PTL

-----------------------------------------------------------------------------
(* What is so when no wait runs out and no world idles out *)

Over(th, t) == th[t].st \in {"closed", "ended"}
Waited(r)   == IF r.at \in {"joining", "extracting", "settling"} THEN r.own ELSE r.cen
GaveUpOn(th, k) == \E t \in 1..Len(th) : th[t].key = k /\ Over(th, t)

\* Until the process is told to stop, a world has one thread, and an entry that leads to it.
OneThreadEach ==
  stopping = "no" => \A t \in Threads :
    /\ thread[t].st \in {"boot", "up"} /\ ~thread[t].flag
    /\ thread[t].key \in DOMAIN worlds /\ worlds[thread[t].key] = t

\* A message whose answer a call waits for is with the thread the call waits on.
AskedThere ==
  \A t \in Threads : \A m : In(thread[t].inbox, m) =>
    (m.seq = call[m.from].seq /\ call[m.from].at \in WaitingPlaces => t = Waited(call[m.from]))

\* A call that gives up on a world has found its thread gone.
GivesUpRightly ==
  \A c \in Conns :
    /\ call[c].at \in WaitingPlaces /\ call[c].ans = Dropped => Over(thread, Waited(call[c]))
    /\ call[c].at = "forget" => GaveUpOn(thread, Me(c))
    /\ call[c].at = "stale" => GaveUpOn(thread, Central)

\* A world told to stop has an entry and is the only one of its key, until it is over or waited for.
OnlyOne(t) ==
  /\ thread[t].key \in DOMAIN worlds /\ worlds[thread[t].key] = t
  /\ \A u \in Threads : thread[u].key = thread[t].key => u = t
ToldIsFound ==
  /\ stopping = "flagged" => \A t \in Threads : thread[t].flag /\ ~Over(thread, t) => OnlyOne(t)
  /\ stopping \in {"joining", "exited"} => \A t \in Threads : thread[t].flag /\ ~Over(thread, t) => t \in drained
  /\ stopping = "exited" => \A t \in Threads : t \in drained => Over(thread, t)

Told == OneThreadEach /\ AskedThere /\ GivesUpRightly /\ ToldIsFound

\* As far as anyone can tell from outside, the threads are as they were.
Lasting == \A t \in Threads : /\ t \in Threads' /\ thread'[t].key = thread[t].key
                             /\ thread'[t].st = thread[t].st /\ thread'[t].flag = thread[t].flag

\* The map is as it was, has one world more, or has lost one that was given up on.
MapSteps ==
  \/ Threads' = Threads /\ UNCHANGED worlds
  \/ \E k \in Keys \ DOMAIN worlds :
       /\ Threads' = Threads \cup {Len(thread) + 1} /\ Len(thread) + 1 \notin Threads /\ thread'[Len(thread) + 1] = Fresh(k)
       /\ worlds' = [x \in DOMAIN worlds \cup {k} |-> IF x = k THEN Len(thread) + 1 ELSE worlds[x]]
  \/ Threads' = Threads /\ \E k : GaveUpOn(thread, k) /\ worlds' = Restrict(worlds, DOMAIN worlds \ {k})

\* Every such step leaves the worlds that are told to stop where they are found.
LEMMA MapKeeps ==
  ASSUME Always, Told, Alive, Lasting, MapSteps, UNCHANGED <<stopping, drained>>
  PROVE  OneThreadEach' /\ ToldIsFound'
<1>1. OneThreadEach /\ ToldIsFound /\ \A k \in DOMAIN worlds : worlds[k] \in Threads /\ thread[worlds[k]].key = k
  BY DEF Told, Always, Shape, Runs, Threads
<1>2. CASE Threads' = Threads /\ UNCHANGED worlds
  BY <1>1, <1>2 DEF OneThreadEach, ToldIsFound, OnlyOne, Lasting, Over
<1>3. ASSUME NEW k \in Keys \ DOMAIN worlds, Threads' = Threads \cup {Len(thread) + 1}, Len(thread) + 1 \notin Threads,
             thread'[Len(thread) + 1] = Fresh(k),
             worlds' = [x \in DOMAIN worlds \cup {k} |-> IF x = k THEN Len(thread) + 1 ELSE worlds[x]]
      PROVE  OneThreadEach' /\ ToldIsFound'
  <2> DEFINE n == Len(thread) + 1
  <2>1. thread'[n].key = k /\ thread'[n].st = "boot" /\ ~thread'[n].flag
    BY <1>3 DEF Fresh
  <2>2. DOMAIN worlds' = DOMAIN worlds \cup {k} /\ worlds'[k] = n /\ \A x \in DOMAIN worlds : worlds'[x] = worlds[x]
    BY <1>3
  <2>3. Threads' = Threads \cup {n} /\ n \notin Threads
    BY <1>3
  <2> HIDE DEF n
  <2>4. OneThreadEach'
    BY <1>1, <2>1, <2>2, <2>3 DEF OneThreadEach, Lasting
  <2>5. stopping = "flagged" => \A t \in Threads : thread[t].flag /\ ~Over(thread, t) =>
          /\ thread'[t].key \in DOMAIN worlds' /\ worlds'[thread'[t].key] = t
          /\ \A u \in Threads' : thread'[u].key = thread'[t].key => u = t
    BY <1>1, <2>1, <2>2, <2>3 DEF ToldIsFound, OnlyOne, Lasting
  <2>6. ToldIsFound'
    <3>1. \A t \in Threads : Over(thread', t) <=> Over(thread, t)
      BY DEF Over, Lasting
    <3>2. \A t \in Threads' : t \in Threads \/ ~thread'[t].flag
      BY <2>1, <2>3
    <3>3. stopping' = "flagged" => \A t \in Threads' : thread'[t].flag /\ ~Over(thread', t) => OnlyOne(t)'
      BY <2>5, <3>1, <3>2 DEF OnlyOne, Lasting
    <3>4. stopping' \in {"joining", "exited"} => \A t \in Threads' : thread'[t].flag /\ ~Over(thread', t) => t \in drained'
      BY <1>1, <3>1, <3>2 DEF ToldIsFound, Lasting
    <3>5. stopping' = "exited" => \A t \in Threads' : t \in drained' => Over(thread', t)
      BY DEF Alive
    <3>. QED BY <3>3, <3>4, <3>5 DEF ToldIsFound
  <2>. QED BY <2>4, <2>6
<1>4. ASSUME Threads' = Threads, NEW k, GaveUpOn(thread, k), worlds' = Restrict(worlds, DOMAIN worlds \ {k})
      PROVE  OneThreadEach' /\ ToldIsFound'
  <2>1. DOMAIN worlds' = DOMAIN worlds \ {k} /\ \A x \in DOMAIN worlds' : worlds'[x] = worlds[x]
    BY <1>4 DEF Restrict
  <2>2. PICK u \in Threads : thread[u].key = k /\ Over(thread, u)
    BY <1>4 DEF GaveUpOn, Threads
  <2>3. stopping # "no"
    BY <1>1, <2>2 DEF OneThreadEach, Over
  <2>4. stopping = "flagged" => \A t \in Threads : thread[t].flag /\ ~Over(thread, t) =>
          /\ thread'[t].key \in DOMAIN worlds' /\ worlds'[thread'[t].key] = t
          /\ \A x \in Threads' : thread'[x].key = thread'[t].key => x = t
    <3> SUFFICES ASSUME stopping = "flagged", NEW t \in Threads, thread[t].flag, ~Over(thread, t)
                 PROVE  /\ thread'[t].key \in DOMAIN worlds' /\ worlds'[thread'[t].key] = t
                        /\ \A x \in Threads' : thread'[x].key = thread'[t].key => x = t
      OBVIOUS
    <3>1. OnlyOne(t)
      BY <1>1 DEF ToldIsFound
    <3>2. thread[t].key # k
      BY <2>2, <3>1 DEF OnlyOne
    <3>3. thread'[t].key = thread[t].key /\ thread[t].key \in DOMAIN worlds' /\ worlds'[thread[t].key] = t
      BY <2>1, <3>1, <3>2 DEF OnlyOne, Lasting
    <3>4. \A x \in Threads : thread'[x].key = thread[x].key
      BY DEF Lasting
    <3>. QED BY <1>4, <3>1, <3>3, <3>4 DEF OnlyOne
  <2>5. ToldIsFound'
    BY <1>1, <1>4, <2>4 DEF ToldIsFound, OnlyOne, Lasting, Over
  <2>. QED BY <2>3, <2>5 DEF OneThreadEach
<1>. QED BY <1>2, <1>3, <1>4 DEF MapSteps

\* The step of a call, however it goes on.
LEMMA CallTold ==
  ASSUME Always, Told, NEW c \in Conns, NEW r \in Call, Turns(c, r), Later(c, r), Alive, Lasting, MapSteps,
         r.at \in WaitingPlaces => r.ans # Dropped,
         r.at = "forget" => GaveUpOn(thread, Me(c)), r.at = "stale" => GaveUpOn(thread, Central),
         \A t \in Threads' : \A m : In(thread'[t].inbox, m) =>
           (t \in Threads /\ In(thread[t].inbox, m)) \/ (m.from = c /\ (m.seq = r.seq /\ r.at \in WaitingPlaces => t = Waited(r))),
         UNCHANGED <<stopping, drained>>
  PROVE  Told'
<1>1. OneThreadEach' /\ ToldIsFound'
  BY MapKeeps
<1>2. call'[c] = r /\ \A d \in Conns : d # c => call'[d] = call[d]
  BY Turning DEF Always
<1>3. \A t \in Threads : Over(thread, t) <=> Over(thread', t)
  BY DEF Over, Lasting
<1>4. \A k : GaveUpOn(thread, k) => GaveUpOn(thread', k)
  BY <1>3 DEF GaveUpOn, Lasting, Threads
<1>5. \A d \in Conns : call[d].at \in WaitingPlaces => Waited(call[d]) \in Threads
  <2> SUFFICES ASSUME NEW d \in Conns, call[d].at \in WaitingPlaces PROVE Waited(call[d]) \in Threads
    OBVIOUS
  <2>. QED BY Knows DEF Points, Runs, Waited, WaitingPlaces, OwnPlaces, CenPlaces, Threads
<1>6. GivesUpRightly'
  <2> SUFFICES ASSUME NEW d \in Conns
               PROVE  /\ call'[d].at \in WaitingPlaces /\ call'[d].ans = Dropped => Over(thread', Waited(call'[d]))
                      /\ call'[d].at = "forget" => GaveUpOn(thread', Me(d))
                      /\ call'[d].at = "stale" => GaveUpOn(thread', Central)
    BY DEF GivesUpRightly
  <2>1. CASE d = c
    BY <1>2, <1>4, <2>1
  <2>2. CASE d # c
    BY <1>2, <1>3, <1>4, <1>5, <2>2 DEF Told, GivesUpRightly, Over, Waited
  <2>. QED BY <2>1, <2>2
<1>7. AskedThere'
  <2> SUFFICES ASSUME NEW t \in Threads', NEW m, In(thread'[t].inbox, m), m.seq = call'[m.from].seq,
                      call'[m.from].at \in WaitingPlaces
               PROVE  t = Waited(call'[m.from])
    BY DEF AskedThere
  <2>1. CASE t \in Threads /\ In(thread[t].inbox, m)
    <3>1. m.from \in Conns /\ m.seq \in Nat /\ Numbered(m, call[m.from])
      BY <2>1, InMessage DEF Always, Lettered, Threads
    <3>2. CASE m.from = c
      <4>1. m.seq <= call[c].seq /\ r.seq > call[c].seq /\ m.seq = r.seq /\ r.seq \in Nat /\ call[c].seq \in Nat
        BY <1>2, <3>1, <3>2, Knows DEF Numbered, Later, Call
      <4>. QED BY <4>1
    <3>3. CASE m.from # c
      BY <1>2, <2>1, <3>1, <3>3 DEF Told, AskedThere
    <3>. QED BY <3>2, <3>3
  <2>2. CASE ~(t \in Threads /\ In(thread[t].inbox, m))
    BY <1>2, <2>2
  <2>. QED BY <2>1, <2>2
<1>. QED BY <1>1, <1>6, <1>7 DEF Told

\* What a call has turned into is a call.
LEMMA TurnedCall == ASSUME Always, Always', NEW c \in Conns, NEW r, Turns(c, r) PROVE r \in Call
<1>1. call \in [Conns -> Call] /\ call' \in [Conns -> Call]
  BY DEF Always, Shape
<1>. QED BY <1>1 DEF Turns

\* A call that goes on with nothing asked.
LEMMA MoveTold ==
  ASSUME Always, Told, Always', Alive, NEW c \in Conns, NEW r, Moves(c, r), r.seq = call[c].seq, r.at \notin WaitingPlaces,
         r.at = "forget" => GaveUpOn(thread, Me(c)), r.at = "stale" => GaveUpOn(thread, Central),
         UNCHANGED worlds \/ \E k : GaveUpOn(thread, k) /\ worlds' = Restrict(worlds, DOMAIN worlds \ {k}),
         UNCHANGED <<stopping, drained>>
  PROVE  Told'
<1>1. r \in Call /\ Turns(c, r) /\ UNCHANGED thread
  BY TurnedCall DEF Moves
<1>2. Later(c, r)
  BY Knows DEF Later
<1>3. Lasting /\ MapSteps
  BY <1>1 DEF Lasting, MapSteps, Threads
<1>4. \A t \in Threads' : \A m : In(thread'[t].inbox, m) => t \in Threads /\ In(thread[t].inbox, m)
  BY <1>1 DEF Threads
<1>. QED BY <1>1, <1>2, <1>3, <1>4, CallTold

\* A call that ends.
LEMMA LeaveTold ==
  ASSUME Always, Told, Always', Alive, NEW c \in Conns, NEW place \in {"out", "in"}, Leaves(c, place),
         UNCHANGED <<worlds, stopping, drained>>
  PROVE  Told'
<1> DEFINE r == Leaving(c, place)
<1>1. r.seq = call[c].seq /\ r.at = place /\ Moves(c, r)
  BY DEF Leaving, Outside, Leaves
<1>2. r.at \notin WaitingPlaces /\ r.at # "forget" /\ r.at # "stale"
  BY <1>1 DEF WaitingPlaces
<1> HIDE DEF r
<1>. QED BY <1>1, <1>2, MoveTold

\* A call that goes on.
LEMMA GoTold ==
  ASSUME Always, Told, Always', Alive, NEW c \in Conns, NEW place, place \notin WaitingPlaces, Goes(c, place),
         place = "forget" => GaveUpOn(thread, Me(c)), place = "stale" => GaveUpOn(thread, Central),
         UNCHANGED worlds \/ \E k : GaveUpOn(thread, k) /\ worlds' = Restrict(worlds, DOMAIN worlds \ {k}),
         UNCHANGED <<stopping, drained>>
  PROVE  Told'
<1> DEFINE r == Going(c, place)
<1>1. r.seq = call[c].seq /\ r.at = place /\ Moves(c, r)
  BY Knows DEF Going, Goes, Call
<1> HIDE DEF r
<1>. QED BY <1>1, MoveTold

\* A call that finds a world, or starts it.
LEMMA ResolveTold ==
  ASSUME Always, Told, Always', Alive, NEW c \in Conns, NEW k, NEW r, Finds(c, k, r) \/ Starts(c, k, r), r.seq = call[c].seq,
         r.at \notin WaitingPlaces \cup {"forget", "stale"}, UNCHANGED <<stopping, drained>>
  PROVE  Told'
<1>1. CASE Finds(c, k, r)
  BY <1>1, MoveTold DEF Finds
<1>2. CASE Starts(c, k, r)
  <2>1. r \in Call /\ Turns(c, r) /\ k \in Keys \ DOMAIN worlds /\ thread' = Append(thread, Fresh(k))
    BY <1>2, TurnedCall DEF Starts
  <2>2. Later(c, r)
    BY Knows DEF Later
  <2>3. /\ \A t \in 1..Len(thread) : t \in 1..Len(thread') /\ thread'[t] = thread[t]
        /\ Len(thread) + 1 \in 1..Len(thread') /\ thread'[Len(thread) + 1] = Fresh(k)
        /\ \A t \in 1..Len(thread') : t \in 1..Len(thread) \/ t = Len(thread) + 1
        /\ Len(thread) \in Nat
    BY <2>1, Starting DEF Always
  <2>4. Len(thread) + 1 \notin 1..Len(thread)
    BY <2>3
  <2>5. Lasting
    BY <2>3 DEF Lasting, Threads
  <2>6. Threads' = Threads \cup {Len(thread) + 1}
    BY <2>3 DEF Threads
  <2>7. MapSteps
    BY <1>2, <2>1, <2>3, <2>4, <2>6 DEF MapSteps, Starts, Threads
  <2>8. \A m : ~In(Fresh(k).inbox, m)
    BY InNone DEF Fresh
  <2>9. \A t \in Threads' : \A m : In(thread'[t].inbox, m) => t \in Threads /\ In(thread[t].inbox, m)
    BY <2>3, <2>8 DEF Threads
  <2>. QED BY <2>1, <2>2, <2>5, <2>7, <2>9, CallTold
<1>. QED BY <1>1, <1>2

\* A call that puts a message, asking for an answer or not.
LEMMA PutTold ==
  ASSUME Always, Told, Always', Alive, NEW c \in Conns, NEW r, Turns(c, r), Later(c, r), r.ans # Dropped \/ r.at \notin WaitingPlaces,
         r.at \notin {"forget", "stale"}, NEW t \in Threads, NEW m \in Message, Puts(t, m), m.from = c,
         m.seq = r.seq /\ r.at \in WaitingPlaces => t = Waited(r), UNCHANGED <<worlds, stopping, drained>>
  PROVE  Told'
<1>1. r \in Call
  BY TurnedCall
<1>2. /\ Len(thread') = Len(thread)
      /\ \A u \in 1..Len(thread) : /\ u # t => thread'[u] = thread[u]
                                   /\ thread'[u].key = thread[u].key /\ thread'[u].st = thread[u].st
                                   /\ thread'[u].flag = thread[u].flag
      /\ \A x : In(thread'[t].inbox, x) <=> In(thread[t].inbox, x) \/ x = m
  <2>1. Shape /\ t \in 1..Len(thread)
    BY DEF Always, Threads
  <2>2. Len(thread') = Len(thread) /\ \A x : In(thread'[t].inbox, x) <=> In(thread[t].inbox, x) \/ x = m
    BY <2>1, Putting
  <2>3. ASSUME NEW u \in 1..Len(thread)
        PROVE  /\ u # t => thread'[u] = thread[u]
               /\ thread'[u].key = thread[u].key /\ thread'[u].st = thread[u].st /\ thread'[u].flag = thread[u].flag
    <3>1. u # t => thread'[u] = thread[u]
      BY <2>1 DEF Puts, Shape
    <3>2. thread'[u].key = thread[u].key
      BY <2>1, Putting
    <3>3. thread'[u].st = thread[u].st
      BY <2>1, Putting
    <3>4. thread'[u].flag = thread[u].flag
      BY <2>1, Putting
    <3>. QED BY <3>1, <3>2, <3>3, <3>4
  <2>. QED BY <2>2, <2>3
<1>3. Lasting /\ MapSteps /\ Threads' = Threads
  BY <1>2 DEF Lasting, MapSteps, Threads
<1>4. \A u \in Threads' : \A x : In(thread'[u].inbox, x) =>
        (u \in Threads /\ In(thread[u].inbox, x)) \/ (x = m /\ u = t)
  BY <1>2, <1>3 DEF Threads
<1>. QED BY <1>1, <1>3, <1>4, CallTold

\* A call that asks.
LEMMA AskTold ==
  ASSUME Always, Told, Always', Alive, NEW c \in Conns, NEW t, t \in Threads, NEW kind \in Kinds, NEW arg \in Nat \cup SUBSET Settlers,
         NEW place \in WaitingPlaces, Asks(c, t, kind, arg, place),
         t = IF place \in {"joining", "extracting", "settling"} THEN call[c].own ELSE call[c].cen,
         UNCHANGED <<worlds, stopping, drained>>
  PROVE  Told'
<1> DEFINE r == Asked(c, place)
           m == Asking(c, kind, arg)
<1>1. /\ r.at = place /\ r.seq = call[c].seq + 1 /\ r.own = call[c].own /\ r.cen = call[c].cen /\ r.ans = Waiting
  BY Knows DEF Asked, Call
<1>2. m \in Message /\ m.from = c
  BY Knows DEF Asking, Message
<1>3. Later(c, r) /\ Waiting # Dropped /\ t = Waited(r) /\ r.at \notin {"forget", "stale"}
  BY <1>1, Knows DEF Later, Waiting, Dropped, Waited, WaitingPlaces
<1>4. Turns(c, r) /\ Puts(t, m)
  BY DEF Asks
<1> HIDE DEF r, m
<1>. QED BY <1>1, <1>2, <1>3, <1>4, PutTold

\* A thread that does not hear is over.
LEMMA Deaf == ASSUME Always, NEW k, NEW t, Runs(thread, t, k), ~Hears(t) PROVE GaveUpOn(thread, k)
<1>1. thread[t] \in Thread
  BY DEF Always, Shape, Runs
<1>. QED BY <1>1 DEF Thread, Sts, Hears, GaveUpOn, Over, Runs

-----------------------------------------------------------------------------
(* Each step of a call keeps it too *)

\* The lock.
LEMMA LockTold == ASSUME Always, Told, Undisturbed, Always', Alive, UNCHANGED <<case, drained>>, NEW c \in Conns, Lock(c) PROVE Told'
<1>1. Moves(c, Going(c, IF call[c].goal = "central" THEN "cen" ELSE "own")) /\ UNCHANGED <<worlds, stopping>>
      /\ Shape
  BY LockIs DEF Always
<1> DEFINE r == Going(c, IF call[c].goal = "central" THEN "cen" ELSE "own")
<1>2. r.seq = call[c].seq /\ r.at = (IF call[c].goal = "central" THEN "cen" ELSE "own")
  BY Knows DEF Going, Call
<1>3. r.at \notin WaitingPlaces /\ r.at # "forget" /\ r.at # "stale"
  BY <1>2 DEF WaitingPlaces
<1>4. Moves(c, r)
  BY <1>1
<1> HIDE DEF r
<1>. QED BY <1>1, <1>2, <1>3, <1>4, MoveTold

\* The personal world.
LEMMA OwnTold == ASSUME Always, Told, Undisturbed, Always', Alive, UNCHANGED <<case, drained>>, NEW c \in Conns, Own(c) PROVE Told'
<1>1. Shape /\ call[c].at = "own"
  BY OwnIs DEF Always
<1>2. CASE Leaves(c, "out") /\ UNCHANGED <<worlds, stopping>>
  BY <1>2, LeaveTold
<1>3. CASE Finds(c, Me(c), [call[c] EXCEPT !.at = (CASE call[c].goal = "login" -> "join" [] call[c].goal = "central" -> "extract" [] call[c].goal = "home" -> "find"), !.own = worlds[Me(c)]]) /\ UNCHANGED stopping
  <2> DEFINE r == [call[c] EXCEPT !.at = (CASE call[c].goal = "login" -> "join" [] call[c].goal = "central" -> "extract" [] call[c].goal = "home" -> "find"), !.own = worlds[Me(c)]]
  <2>1. r.seq = call[c].seq /\ r.at = (CASE call[c].goal = "login" -> "join" [] call[c].goal = "central" -> "extract" [] call[c].goal = "home" -> "find")
    BY Knows DEF Call
  <2>2. r.at \notin WaitingPlaces \cup {"forget", "stale"}
    BY <1>1, <2>1, Knows DEF WaitingPlaces, Call, Goals, Carries, Aimed
  <2>3. Finds(c, Me(c), r)
    BY <1>3
  <2> HIDE DEF r
  <2>. QED BY <1>3, <2>1, <2>2, <2>3, ResolveTold
<1>4. CASE Starts(c, Me(c), [call[c] EXCEPT !.at = (CASE call[c].goal = "login" -> "join" [] call[c].goal = "central" -> "extract" [] call[c].goal = "home" -> "find"), !.own = (Len(thread) + 1)]) /\ UNCHANGED stopping
  <2> DEFINE r == [call[c] EXCEPT !.at = (CASE call[c].goal = "login" -> "join" [] call[c].goal = "central" -> "extract" [] call[c].goal = "home" -> "find"), !.own = (Len(thread) + 1)]
  <2>1. r.seq = call[c].seq /\ r.at = (CASE call[c].goal = "login" -> "join" [] call[c].goal = "central" -> "extract" [] call[c].goal = "home" -> "find")
    BY Knows DEF Call
  <2>2. r.at \notin WaitingPlaces \cup {"forget", "stale"}
    BY <1>1, <2>1, Knows DEF WaitingPlaces, Call, Goals, Carries, Aimed
  <2>3. Starts(c, Me(c), r)
    BY <1>4
  <2> HIDE DEF r
  <2>. QED BY <1>4, <2>1, <2>2, <2>3, ResolveTold
<1>. QED BY <1>1, <1>2, <1>3, <1>4, OwnIs

\* The central world.
LEMMA CenTold == ASSUME Always, Told, Undisturbed, Always', Alive, UNCHANGED <<case, drained>>, NEW c \in Conns, Cen(c) PROVE Told'
<1>1. Shape /\ call[c].at = "cen"
  BY CenIs DEF Always
<1>2. CASE Finds(c, Central, [call[c] EXCEPT !.at = "count", !.cen = worlds[Central]]) /\ UNCHANGED stopping
  <2> DEFINE r == [call[c] EXCEPT !.at = "count", !.cen = worlds[Central]]
  <2>1. r.seq = call[c].seq /\ r.at = "count"
    BY Knows DEF Call
  <2>2. r.at \notin WaitingPlaces \cup {"forget", "stale"}
    BY <1>1, <2>1, Knows DEF WaitingPlaces, Call, Goals, Carries, Aimed
  <2>3. Finds(c, Central, r)
    BY <1>2
  <2> HIDE DEF r
  <2>. QED BY <1>2, <2>1, <2>2, <2>3, ResolveTold
<1>3. CASE Starts(c, Central, [call[c] EXCEPT !.at = "count", !.cen = (Len(thread) + 1)]) /\ UNCHANGED stopping
  <2> DEFINE r == [call[c] EXCEPT !.at = "count", !.cen = (Len(thread) + 1)]
  <2>1. r.seq = call[c].seq /\ r.at = "count"
    BY Knows DEF Call
  <2>2. r.at \notin WaitingPlaces \cup {"forget", "stale"}
    BY <1>1, <2>1, Knows DEF WaitingPlaces, Call, Goals, Carries, Aimed
  <2>3. Starts(c, Central, r)
    BY <1>3
  <2> HIDE DEF r
  <2>. QED BY <1>3, <2>1, <2>2, <2>3, ResolveTold
<1>. QED BY <1>1, <1>2, <1>3, CenIs

\* The central world, again.
LEMMA RecheckTold == ASSUME Always, Told, Undisturbed, Always', Alive, UNCHANGED <<case, drained>>, NEW c \in Conns, Recheck(c) PROVE Told'
<1>1. Shape /\ call[c].at = "recheck"
  BY RecheckIs DEF Always
<1>2. CASE Finds(c, Central, [call[c] EXCEPT !.at = (IF call[c].want = 0 THEN "enter" ELSE "own"), !.cen = worlds[Central]]) /\ UNCHANGED stopping
  <2> DEFINE r == [call[c] EXCEPT !.at = (IF call[c].want = 0 THEN "enter" ELSE "own"), !.cen = worlds[Central]]
  <2>1. r.seq = call[c].seq /\ r.at = (IF call[c].want = 0 THEN "enter" ELSE "own")
    BY Knows DEF Call
  <2>2. r.at \notin WaitingPlaces \cup {"forget", "stale"}
    BY <1>1, <2>1, Knows DEF WaitingPlaces, Call, Goals, Carries, Aimed
  <2>3. Finds(c, Central, r)
    BY <1>2
  <2> HIDE DEF r
  <2>. QED BY <1>2, <2>1, <2>2, <2>3, ResolveTold
<1>3. CASE Starts(c, Central, [call[c] EXCEPT !.at = (IF call[c].want = 0 THEN "enter" ELSE "own"), !.cen = (Len(thread) + 1)]) /\ UNCHANGED stopping
  <2> DEFINE r == [call[c] EXCEPT !.at = (IF call[c].want = 0 THEN "enter" ELSE "own"), !.cen = (Len(thread) + 1)]
  <2>1. r.seq = call[c].seq /\ r.at = (IF call[c].want = 0 THEN "enter" ELSE "own")
    BY Knows DEF Call
  <2>2. r.at \notin WaitingPlaces \cup {"forget", "stale"}
    BY <1>1, <2>1, Knows DEF WaitingPlaces, Call, Goals, Carries, Aimed
  <2>3. Starts(c, Central, r)
    BY <1>3
  <2> HIDE DEF r
  <2>. QED BY <1>3, <2>1, <2>2, <2>3, ResolveTold
<1>. QED BY <1>1, <1>2, <1>3, RecheckIs

\* The personal world, again.
LEMMA OwnAgainTold == ASSUME Always, Told, Undisturbed, Always', Alive, UNCHANGED <<case, drained>>, NEW c \in Conns, OwnAgain(c) PROVE Told'
<1>1. Shape /\ call[c].at = "again"
  BY OwnAgainIs DEF Always
<1>2. CASE Leaves(c, "out") /\ UNCHANGED <<worlds, stopping>>
  BY <1>2, LeaveTold
<1>3. CASE Finds(c, Me(c), [call[c] EXCEPT !.at = "join", !.retry = TRUE, !.own = worlds[Me(c)]]) /\ UNCHANGED stopping
  <2> DEFINE r == [call[c] EXCEPT !.at = "join", !.retry = TRUE, !.own = worlds[Me(c)]]
  <2>1. r.seq = call[c].seq /\ r.at = "join"
    BY Knows DEF Call
  <2>2. r.at \notin WaitingPlaces \cup {"forget", "stale"}
    BY <1>1, <2>1, Knows DEF WaitingPlaces, Call, Goals, Carries, Aimed
  <2>3. Finds(c, Me(c), r)
    BY <1>3
  <2> HIDE DEF r
  <2>. QED BY <1>3, <2>1, <2>2, <2>3, ResolveTold
<1>4. CASE Starts(c, Me(c), [call[c] EXCEPT !.at = "join", !.retry = TRUE, !.own = (Len(thread) + 1)]) /\ UNCHANGED stopping
  <2> DEFINE r == [call[c] EXCEPT !.at = "join", !.retry = TRUE, !.own = (Len(thread) + 1)]
  <2>1. r.seq = call[c].seq /\ r.at = "join"
    BY Knows DEF Call
  <2>2. r.at \notin WaitingPlaces \cup {"forget", "stale"}
    BY <1>1, <2>1, Knows DEF WaitingPlaces, Call, Goals, Carries, Aimed
  <2>3. Starts(c, Me(c), r)
    BY <1>4
  <2> HIDE DEF r
  <2>. QED BY <1>4, <2>1, <2>2, <2>3, ResolveTold
<1>. QED BY <1>1, <1>2, <1>3, <1>4, OwnAgainIs

\* The request to join at home.
LEMMA JoinOwnTold == ASSUME Always, Told, Undisturbed, Always', Alive, UNCHANGED <<case, drained>>, NEW c \in Conns, JoinOwn(c) PROVE Told'
<1>1. call[c].at = "join" /\ UNCHANGED <<worlds, stopping>> /\ Shape
  BY JoinOwnIs DEF Always
<1>2. Runs(thread, call[c].own, Me(c)) /\ call[c] \in Call
  BY <1>1, Knows DEF Points, OwnPlaces, CenPlaces
<1>3. CASE Asks(c, call[c].own, "join", {}, "joining")
  <2>1. call[c].own \in Threads /\ "join" \in Kinds /\ {} \in Nat \cup SUBSET Settlers /\ "joining" \in WaitingPlaces
    BY <1>2 DEF Runs, Threads, Kinds, Call, WaitingPlaces
  <2>. QED BY <1>1, <1>3, <2>1, AskTold
<1>4. CASE Leaves(c, "out")
  BY <1>1, <1>4, LeaveTold
<1>5. CASE ~Hears(call[c].own) /\ Goes(c, "forget")
  <2>1. GaveUpOn(thread, Me(c))
    BY <1>2, <1>5, Deaf
  <2>. QED BY <1>1, <1>5, <2>1, GoTold DEF WaitingPlaces
<1>. QED BY <1>1, <1>3, <1>4, <1>5, JoinOwnIs

\* The count.
LEMMA CountTold == ASSUME Always, Told, Undisturbed, Always', Alive, UNCHANGED <<case, drained>>, NEW c \in Conns, Count(c) PROVE Told'
<1>1. call[c].at = "count" /\ UNCHANGED <<worlds, stopping>> /\ Shape
  BY CountIs DEF Always
<1>2. Runs(thread, call[c].cen, Central) /\ call[c] \in Call
  BY <1>1, Knows DEF Points, OwnPlaces, CenPlaces
<1>3. CASE Asks(c, call[c].cen, "count", {}, "counting")
  <2>1. call[c].cen \in Threads /\ "count" \in Kinds /\ {} \in Nat \cup SUBSET Settlers /\ "counting" \in WaitingPlaces
    BY <1>2 DEF Runs, Threads, Kinds, Call, WaitingPlaces
  <2>. QED BY <1>1, <1>3, <2>1, AskTold
<1>4. CASE Leaves(c, "out")
  BY <1>1, <1>4, LeaveTold
<1>5. CASE ~Hears(call[c].cen) /\ Goes(c, "stale")
  <2>1. GaveUpOn(thread, Central)
    BY <1>2, <1>5, Deaf
  <2>. QED BY <1>1, <1>5, <2>1, GoTold DEF WaitingPlaces
<1>. QED BY <1>1, <1>3, <1>4, <1>5, CountIs

\* The request for migrants.
LEMMA ExtractTold == ASSUME Always, Told, Undisturbed, Always', Alive, UNCHANGED <<case, drained>>, NEW c \in Conns, Extract(c) PROVE Told'
<1>1. call[c].at = "extract" /\ UNCHANGED <<worlds, stopping>> /\ Shape
  BY ExtractIs DEF Always
<1>2. Runs(thread, call[c].own, Me(c)) /\ call[c] \in Call
  BY <1>1, Knows DEF Points, OwnPlaces, CenPlaces
<1>3. CASE Asks(c, call[c].own, "extract", call[c].want, "extracting")
  <2>1. call[c].own \in Threads /\ "extract" \in Kinds /\ call[c].want \in Nat \cup SUBSET Settlers /\ "extracting" \in WaitingPlaces
    BY <1>2 DEF Runs, Threads, Kinds, Call, WaitingPlaces
  <2>. QED BY <1>1, <1>3, <2>1, AskTold
<1>4. CASE Leaves(c, "out")
  BY <1>1, <1>4, LeaveTold
<1>. QED BY <1>1, <1>3, <1>4, ExtractIs

\* The request to join the central world.
LEMMA EnterTold == ASSUME Always, Told, Undisturbed, Always', Alive, UNCHANGED <<case, drained>>, NEW c \in Conns, Enter(c) PROVE Told'
<1>1. call[c].at = "enter" /\ UNCHANGED <<worlds, stopping>> /\ Shape
  BY EnterIs DEF Always
<1>2. Runs(thread, call[c].cen, Central) /\ call[c] \in Call
  BY <1>1, Knows DEF Points, OwnPlaces, CenPlaces
<1>3. CASE Asks(c, call[c].cen, "join", {}, "entering")
  <2>1. call[c].cen \in Threads /\ "join" \in Kinds /\ {} \in Nat \cup SUBSET Settlers /\ "entering" \in WaitingPlaces
    BY <1>2 DEF Runs, Threads, Kinds, Call, WaitingPlaces
  <2>. QED BY <1>1, <1>3, <2>1, AskTold
<1>4. CASE Leaves(c, "out")
  BY <1>1, <1>4, LeaveTold
<1>. QED BY <1>1, <1>3, <1>4, EnterIs

\* The request for the settlers.
LEMMA FetchTold == ASSUME Always, Told, Undisturbed, Always', Alive, UNCHANGED <<case, drained>>, NEW c \in Conns, Fetch(c) PROVE Told'
<1>1. call[c].at = "fetch" /\ UNCHANGED <<worlds, stopping>> /\ Shape
  BY FetchIs DEF Always
<1>2. Runs(thread, call[c].cen, Central) /\ call[c] \in Call
  BY <1>1, Knows DEF Points, OwnPlaces, CenPlaces
<1>3. CASE Asks(c, call[c].cen, "settlers", {}, "fetching")
  <2>1. call[c].cen \in Threads /\ "settlers" \in Kinds /\ {} \in Nat \cup SUBSET Settlers /\ "fetching" \in WaitingPlaces
    BY <1>2 DEF Runs, Threads, Kinds, Call, WaitingPlaces
  <2>. QED BY <1>1, <1>3, <2>1, AskTold
<1>4. CASE ~Hears(call[c].cen) /\ Goes(c, "join")
  <2>1. GaveUpOn(thread, Central)
    BY <1>2, <1>4, Deaf
  <2>. QED BY <1>1, <1>4, <2>1, GoTold DEF WaitingPlaces
<1>. QED BY <1>1, <1>3, <1>4, FetchIs

\* The request to take them.
LEMMA SettleTold == ASSUME Always, Told, Undisturbed, Always', Alive, UNCHANGED <<case, drained>>, NEW c \in Conns, Settle(c) PROVE Told'
<1>1. call[c].at = "settle" /\ UNCHANGED <<worlds, stopping>> /\ Shape
  BY SettleIs DEF Always
<1>2. Runs(thread, call[c].own, Me(c)) /\ call[c] \in Call
  BY <1>1, Knows DEF Points, OwnPlaces, CenPlaces
<1>3. CASE Asks(c, call[c].own, "returnees", call[c].held, "settling")
  <2>1. call[c].own \in Threads /\ "returnees" \in Kinds /\ call[c].held \in Nat \cup SUBSET Settlers /\ "settling" \in WaitingPlaces
    BY <1>2 DEF Runs, Threads, Kinds, Call, WaitingPlaces
  <2>. QED BY <1>1, <1>3, <2>1, AskTold
<1>4. CASE ~Hears(call[c].own) /\ Goes(c, "putback")
  <2>1. GaveUpOn(thread, Me(c))
    BY <1>2, <1>4, Deaf
  <2>. QED BY <1>1, <1>4, <2>1, GoTold DEF WaitingPlaces
<1>. QED BY <1>1, <1>3, <1>4, SettleIs

\* The join's answer.
LEMMA JoiningTold == ASSUME Always, Told, Undisturbed, Always', Alive, UNCHANGED <<case, drained>>, NEW c \in Conns, Joining(c) PROVE Told'
<1>1. Shape /\ ~(~case.prompt /\ call[c].ans = Waiting)
  BY DEF Always, Undisturbed
<1>2. call[c].at = "joining"
  BY <1>1, JoiningIs
<1>3. CASE Leaves(c, "in") /\ UNCHANGED <<worlds, stopping>>
  BY <1>3, LeaveTold
<1>4. CASE Leaves(c, "out") /\ UNCHANGED <<worlds, stopping>>
  BY <1>4, LeaveTold
<1>5. CASE call[c].ans = Dropped /\ Goes(c, "forget") /\ UNCHANGED <<worlds, stopping>>
  <2>1. GaveUpOn(thread, Me(c))
    <3>1. Over(thread, Waited(call[c]))
      BY <1>2, <1>5 DEF Told, GivesUpRightly, WaitingPlaces
    <3>2. Runs(thread, Waited(call[c]), Me(c))
      BY <1>2, Knows DEF Points, Waited, OwnPlaces, CenPlaces
    <3>. QED BY <3>1, <3>2 DEF GaveUpOn, Runs
  <2>. QED BY <1>5, <2>1, GoTold DEF WaitingPlaces
<1>. QED BY <1>1, <1>2, <1>3, <1>4, <1>5, JoiningIs

\* The count's answer.
LEMMA CountingTold == ASSUME Always, Told, Undisturbed, Always', Alive, UNCHANGED <<case, drained>>, NEW c \in Conns, Counting(c) PROVE Told'
<1>1. Shape /\ ~(~case.prompt /\ call[c].ans = Waiting)
  BY DEF Always, Undisturbed
<1>2. call[c].at = "counting"
  BY <1>1, CountingIs
<1>3. CASE call[c].ans.is = "value" /\ Moves(c, [call[c] EXCEPT !.at = "recheck", !.want = Want(call[c].ans.value)]) /\ UNCHANGED <<worlds, stopping>>
  <2> DEFINE r == [call[c] EXCEPT !.at = "recheck", !.want = Want(call[c].ans.value)]
  <2>1. r.seq = call[c].seq /\ r.at = "recheck"
    BY Knows DEF Call
  <2>2. r.at \notin WaitingPlaces /\ r.at # "forget" /\ r.at # "stale"
    BY <2>1 DEF WaitingPlaces
  <2>3. Moves(c, r)
    BY <1>3
  <2> HIDE DEF r
  <2>. QED BY <1>3, <2>1, <2>2, <2>3, MoveTold
<1>4. CASE Leaves(c, "out") /\ UNCHANGED <<worlds, stopping>>
  BY <1>4, LeaveTold
<1>5. CASE call[c].ans = Dropped /\ Goes(c, "stale") /\ UNCHANGED <<worlds, stopping>>
  <2>1. GaveUpOn(thread, Central)
    <3>1. Over(thread, Waited(call[c]))
      BY <1>2, <1>5 DEF Told, GivesUpRightly, WaitingPlaces
    <3>2. Runs(thread, Waited(call[c]), Central)
      BY <1>2, Knows DEF Points, Waited, OwnPlaces, CenPlaces
    <3>. QED BY <3>1, <3>2 DEF GaveUpOn, Runs
  <2>. QED BY <1>5, <2>1, GoTold DEF WaitingPlaces
<1>. QED BY <1>1, <1>2, <1>3, <1>4, <1>5, CountingIs

\* The migrants' answer.
LEMMA ExtractingTold == ASSUME Always, Told, Undisturbed, Always', Alive, UNCHANGED <<case, drained>>, NEW c \in Conns, Extracting(c) PROVE Told'
<1>1. Shape /\ ~(~case.prompt /\ call[c].ans = Waiting)
  BY DEF Always, Undisturbed
<1>2. CASE Leaves(c, "out") /\ UNCHANGED <<worlds, stopping>>
  BY <1>2, LeaveTold
<1>3. CASE Goes(c, "enter") /\ UNCHANGED <<worlds, stopping>>
  BY <1>3, GoTold DEF WaitingPlaces
<1>4. CASE Moves(c, [call[c] EXCEPT !.at = (IF call[c].ans.value = {} THEN "enter" ELSE "inject"), !.held = call[c].ans.value]) /\ UNCHANGED <<worlds, stopping>>
  <2> DEFINE r == [call[c] EXCEPT !.at = (IF call[c].ans.value = {} THEN "enter" ELSE "inject"), !.held = call[c].ans.value]
  <2>1. r.seq = call[c].seq /\ r.at = (IF call[c].ans.value = {} THEN "enter" ELSE "inject")
    BY Knows DEF Call
  <2>2. r.at \notin WaitingPlaces /\ r.at # "forget" /\ r.at # "stale"
    BY <2>1 DEF WaitingPlaces
  <2>3. Moves(c, r)
    BY <1>4
  <2> HIDE DEF r
  <2>. QED BY <1>4, <2>1, <2>2, <2>3, MoveTold
<1>. QED BY <1>1, <1>2, <1>3, <1>4, ExtractingIs

\* The central join's answer.
LEMMA EnteringTold == ASSUME Always, Told, Undisturbed, Always', Alive, UNCHANGED <<case, drained>>, NEW c \in Conns, Entering(c) PROVE Told'
<1>1. Shape /\ ~(~case.prompt /\ call[c].ans = Waiting)
  BY DEF Always, Undisturbed
<1>2. CASE Leaves(c, "in") /\ UNCHANGED <<worlds, stopping>>
  BY <1>2, LeaveTold
<1>3. CASE Leaves(c, "out") /\ UNCHANGED <<worlds, stopping>>
  BY <1>3, LeaveTold
<1>. QED BY <1>1, <1>2, <1>3, EnteringIs

\* The settlers' answer.
LEMMA FetchingTold == ASSUME Always, Told, Undisturbed, Always', Alive, UNCHANGED <<case, drained>>, NEW c \in Conns, Fetching(c) PROVE Told'
<1>1. Shape /\ ~(~case.prompt /\ call[c].ans = Waiting)
  BY DEF Always, Undisturbed
<1>2. CASE Moves(c, [call[c] EXCEPT !.at = (IF call[c].ans.value = {} THEN "join" ELSE "settle"), !.held = call[c].ans.value]) /\ UNCHANGED <<worlds, stopping>>
  <2> DEFINE r == [call[c] EXCEPT !.at = (IF call[c].ans.value = {} THEN "join" ELSE "settle"), !.held = call[c].ans.value]
  <2>1. r.seq = call[c].seq /\ r.at = (IF call[c].ans.value = {} THEN "join" ELSE "settle")
    BY Knows DEF Call
  <2>2. r.at \notin WaitingPlaces /\ r.at # "forget" /\ r.at # "stale"
    BY <2>1 DEF WaitingPlaces
  <2>3. Moves(c, r)
    BY <1>2
  <2> HIDE DEF r
  <2>. QED BY <1>2, <2>1, <2>2, <2>3, MoveTold
<1>3. CASE Goes(c, "join") /\ UNCHANGED <<worlds, stopping>>
  BY <1>3, GoTold DEF WaitingPlaces
<1>. QED BY <1>1, <1>2, <1>3, FetchingIs

\* The central world, if it runs.
LEMMA FindTold == ASSUME Always, Told, Undisturbed, Always', Alive, UNCHANGED <<case, drained>>, NEW c \in Conns, Find(c) PROVE Told'
<1>1. Shape /\ ~(~case.prompt /\ call[c].ans = Waiting)
  BY DEF Always, Undisturbed
<1>2. CASE Moves(c, [call[c] EXCEPT !.at = "fetch", !.cen = worlds[Central]]) /\ UNCHANGED <<worlds, stopping>>
  <2> DEFINE r == [call[c] EXCEPT !.at = "fetch", !.cen = worlds[Central]]
  <2>1. r.seq = call[c].seq /\ r.at = "fetch"
    BY Knows DEF Call
  <2>2. r.at \notin WaitingPlaces /\ r.at # "forget" /\ r.at # "stale"
    BY <2>1 DEF WaitingPlaces
  <2>3. Moves(c, r)
    BY <1>2
  <2> HIDE DEF r
  <2>. QED BY <1>2, <2>1, <2>2, <2>3, MoveTold
<1>3. CASE Goes(c, "join") /\ UNCHANGED <<worlds, stopping>>
  BY <1>3, GoTold DEF WaitingPlaces
<1>. QED BY <1>1, <1>2, <1>3, FindIs

\* A stale personal world's entry goes.
LEMMA ForgetOwnTold == ASSUME Always, Told, Undisturbed, Always', Alive, UNCHANGED <<case, drained>>, NEW c \in Conns, ForgetOwn(c) PROVE Told'
<1>1. call[c].at = "forget" /\ UNCHANGED stopping /\ Goes(c, "again") /\ worlds' = Restrict(worlds, DOMAIN worlds \ {Me(c)})
  BY ForgetOwnIs DEF Always
<1>2. GaveUpOn(thread, Me(c))
  BY <1>1 DEF Told, GivesUpRightly
<1>. QED BY <1>1, <1>2, GoTold DEF WaitingPlaces

\* A stale central world's entry goes.
LEMMA StaleTold == ASSUME Always, Told, Undisturbed, Always', Alive, UNCHANGED <<case, drained>>, NEW c \in Conns, Stale(c) PROVE Told'
<1>1. /\ call[c].at = "stale" /\ UNCHANGED stopping /\ Moves(c, [call[c] EXCEPT !.at = "cen", !.retry = TRUE])
      /\ worlds' = Restrict(worlds, DOMAIN worlds \ {Central})
  BY StaleIs DEF Always
<1>2. GaveUpOn(thread, Central)
  BY <1>1 DEF Told, GivesUpRightly
<1> DEFINE r == [call[c] EXCEPT !.at = "cen", !.retry = TRUE]
<1>3. r.seq = call[c].seq /\ r.at = "cen" /\ Moves(c, r)
  BY <1>1, Knows DEF Call
<1>4. r.at \notin WaitingPlaces /\ r.at # "forget" /\ r.at # "stale"
  BY <1>3 DEF WaitingPlaces
<1> HIDE DEF r
<1>. QED BY <1>1, <1>2, <1>3, <1>4, MoveTold

\* How many found room.
LEMMA SettlingTold == ASSUME Always, Told, Undisturbed, Always', Alive, UNCHANGED <<case, drained>>, NEW c \in Conns, Settling(c) PROVE Told'
<1>1. Shape /\ UNCHANGED <<worlds, stopping>>
  BY SettlingIs DEF Always
<1>2. PICK rest : Moves(c, [call[c] EXCEPT !.at = IF rest = {} THEN "join" ELSE "putback", !.held = rest])
  BY <1>1, SettlingIs
<1> DEFINE r == [call[c] EXCEPT !.at = IF rest = {} THEN "join" ELSE "putback", !.held = rest]
<1>3. r.seq = call[c].seq /\ r.at = (IF rest = {} THEN "join" ELSE "putback") /\ Moves(c, r)
  BY <1>2, Knows DEF Call
<1>4. r.at \notin WaitingPlaces /\ r.at # "forget" /\ r.at # "stale"
  BY <1>3 DEF WaitingPlaces
<1> HIDE DEF r
<1>. QED BY <1>1, <1>3, <1>4, MoveTold

\* Sending the migrants.
LEMMA InjectTold == ASSUME Always, Told, Undisturbed, Always', Alive, UNCHANGED <<case, drained>>, NEW c \in Conns, Inject(c) PROVE Told'
<1>1. call[c].at = "inject" /\ UNCHANGED <<worlds, stopping>> /\ Shape
  BY InjectIs DEF Always
<1>2. Runs(thread, call[c].cen, Central) /\ call[c] \in Call /\ call[c].seq \in Nat
  BY <1>1, Knows DEF Points, CenPlaces
<1> DEFINE r == [call[c] EXCEPT !.at = "enter", !.held = {}]
           m == Telling(c, call[c].held)
<1>3. r.seq = call[c].seq /\ r.at = "enter"
  BY <1>2 DEF Call
<1>4. Later(c, r) /\ r.at \notin WaitingPlaces /\ r.at # "forget" /\ r.at # "stale"
  BY <1>2, <1>3 DEF WaitingPlaces, Later
<1>5. m \in Message /\ m.from = c /\ call[c].cen \in Threads
  BY <1>2 DEF Telling, Message, Kinds, Call, Runs, Threads
<1>6. CASE Turns(c, r) /\ Puts(call[c].cen, m)
  <2> HIDE DEF r, m
  <2>. QED BY <1>1, <1>4, <1>5, <1>6, PutTold
<1>7. CASE Leaves(c, "out")
  BY <1>1, <1>7, LeaveTold
<1>. QED BY <1>1, <1>6, <1>7, InjectIs

\* Sending those back who found no room.
LEMMA PutBackTold == ASSUME Always, Told, Undisturbed, Always', Alive, UNCHANGED <<case, drained>>, NEW c \in Conns, PutBack(c) PROVE Told'
<1>1. call[c].at = "putback" /\ UNCHANGED <<worlds, stopping>> /\ Shape
  BY PutBackIs DEF Always
<1>2. Runs(thread, call[c].cen, Central) /\ call[c] \in Call /\ call[c].seq \in Nat
  BY <1>1, Knows DEF Points, CenPlaces
<1> DEFINE r == [call[c] EXCEPT !.at = "join", !.held = {}]
           m == Telling(c, call[c].held)
<1>3. r.seq = call[c].seq /\ r.at = "join"
  BY <1>2 DEF Call
<1>4. Later(c, r) /\ r.at \notin WaitingPlaces /\ r.at # "forget" /\ r.at # "stale"
  BY <1>2, <1>3 DEF WaitingPlaces, Later
<1>5. m \in Message /\ m.from = c /\ call[c].cen \in Threads
  BY <1>2 DEF Telling, Message, Kinds, Call, Runs, Threads
<1>6. CASE Turns(c, r) /\ Puts(call[c].cen, m)
  <2> HIDE DEF r, m
  <2>. QED BY <1>1, <1>4, <1>5, <1>6, PutTold
<1>7. CASE Turns(c, r) /\ UNCHANGED thread
  <2>1. Moves(c, r)
    BY <1>7 DEF Moves
  <2> HIDE DEF r
  <2>. QED BY <1>1, <1>3, <1>4, <2>1, MoveTold
<1>. QED BY <1>1, <1>6, <1>7, PutBackIs

-----------------------------------------------------------------------------
(* Each step of a thread keeps it too *)

\* Threads that only get over, questions that only disappear, and calls that
\* are answered, begin, or learn that their thread is over.
LEMMA ThreadTold ==
  ASSUME Always, Told, Alive, Threads' = Threads,
         \A t \in Threads :
           /\ thread'[t].key = thread[t].key /\ thread'[t].flag = thread[t].flag
           /\ Over(thread, t) => Over(thread', t)
           /\ stopping = "no" => thread'[t].st \in {"boot", "up"}
           /\ \A m : In(thread'[t].inbox, m) => In(thread[t].inbox, m),
         \A c \in Conns :
           \/ /\ Unmoved(call[c], call'[c])
              /\ call'[c].at \in WaitingPlaces /\ call'[c].ans = Dropped => call[c].ans = Dropped \/ Over(thread', Waited(call[c]))
           \/ call'[c].at \in {"own", "lock"},
         UNCHANGED worlds \/ \E k : GaveUpOn(thread, k) /\ worlds' = Restrict(worlds, DOMAIN worlds \ {k}),
         UNCHANGED <<stopping, drained>>
  PROVE  Told'
<1>1. OneThreadEach /\ ToldIsFound /\ AskedThere /\ GivesUpRightly
  BY DEF Told
<1>2. DOMAIN worlds' \subseteq DOMAIN worlds /\ \A x \in DOMAIN worlds' : worlds'[x] = worlds[x]
  BY DEF Restrict
<1>3. ASSUME NEW t \in Threads, OnlyOne(t), ~Over(thread, t) PROVE thread[t].key \in DOMAIN worlds'
  <2>1. CASE UNCHANGED worlds
    BY <1>3, <2>1 DEF OnlyOne
  <2>2. ASSUME NEW k, GaveUpOn(thread, k), worlds' = Restrict(worlds, DOMAIN worlds \ {k}) PROVE thread[t].key \in DOMAIN worlds'
    <3>1. PICK u \in Threads : thread[u].key = k /\ Over(thread, u)
      BY <2>2 DEF GaveUpOn, Threads
    <3>2. thread[t].key # k
      BY <1>3, <3>1 DEF OnlyOne
    <3>. QED BY <1>3, <2>2, <3>2 DEF OnlyOne, Restrict
  <2>. QED BY <2>1, <2>2
<1>4. OneThreadEach'
  <2> SUFFICES ASSUME stopping = "no", NEW t \in Threads
               PROVE  /\ thread'[t].st \in {"boot", "up"} /\ ~thread'[t].flag
                      /\ thread'[t].key \in DOMAIN worlds' /\ worlds'[thread'[t].key] = t
    BY DEF OneThreadEach
  <2>1. /\ thread[t].st \in {"boot", "up"} /\ ~thread[t].flag /\ thread[t].key \in DOMAIN worlds /\ worlds[thread[t].key] = t
        /\ \A u \in Threads : ~Over(thread, u)
    BY <1>1 DEF OneThreadEach, Over
  <2>2. UNCHANGED worlds
    BY <2>1 DEF GaveUpOn, Threads
  <2>. QED BY <2>1, <2>2
<1>5. ToldIsFound'
  <2>1. stopping = "flagged" => \A t \in Threads' : thread'[t].flag /\ ~Over(thread', t) => OnlyOne(t)'
    <3> SUFFICES ASSUME stopping = "flagged", NEW t \in Threads, thread'[t].flag, ~Over(thread', t) PROVE OnlyOne(t)'
      OBVIOUS
    <3>1. OnlyOne(t) /\ ~Over(thread, t)
      BY <1>1 DEF ToldIsFound
    <3>2. thread[t].key \in DOMAIN worlds'
      BY <1>3, <3>1
    <3>. QED BY <1>2, <3>1, <3>2 DEF OnlyOne
  <2>2. stopping \in {"joining", "exited"} => \A t \in Threads' : thread'[t].flag /\ ~Over(thread', t) => t \in drained'
    BY <1>1 DEF ToldIsFound
  <2>3. stopping # "exited"
    BY DEF Alive
  <2>. QED BY <2>1, <2>2, <2>3 DEF ToldIsFound
<1>6. \A k : GaveUpOn(thread, k) => GaveUpOn(thread', k)
  BY DEF GaveUpOn, Threads
<1>7. GivesUpRightly'
  <2> SUFFICES ASSUME NEW c \in Conns
               PROVE  /\ call'[c].at \in WaitingPlaces /\ call'[c].ans = Dropped => Over(thread', Waited(call'[c]))
                      /\ call'[c].at = "forget" => GaveUpOn(thread', Me(c))
                      /\ call'[c].at = "stale" => GaveUpOn(thread', Central)
    BY DEF GivesUpRightly
  <2>1. CASE call'[c].at \in {"own", "lock"}
    BY <2>1 DEF WaitingPlaces
  <2>2. CASE /\ Unmoved(call[c], call'[c])
             /\ call'[c].at \in WaitingPlaces /\ call'[c].ans = Dropped => call[c].ans = Dropped \/ Over(thread', Waited(call[c]))
    <3>1. Waited(call'[c]) = Waited(call[c]) /\ call'[c].at = call[c].at
      BY <2>2 DEF Unmoved, Waited
    <3>2. call[c].at \in WaitingPlaces => Waited(call[c]) \in Threads
      BY Knows DEF Points, Runs, Waited, WaitingPlaces, OwnPlaces, CenPlaces, Threads
    <3>3. call'[c].at \in WaitingPlaces /\ call'[c].ans = Dropped => Over(thread', Waited(call'[c]))
      BY <1>1, <2>2, <3>1, <3>2 DEF GivesUpRightly
    <3>. QED BY <1>1, <1>6, <3>1, <3>3 DEF GivesUpRightly
  <2>. QED BY <2>1, <2>2
<1>8. AskedThere'
  <2> SUFFICES ASSUME NEW t \in Threads, NEW m, In(thread'[t].inbox, m), m.seq = call'[m.from].seq,
                      call'[m.from].at \in WaitingPlaces
               PROVE  t = Waited(call'[m.from])
    BY DEF AskedThere
  <2>1. In(thread[t].inbox, m) /\ m.from \in Conns
    BY InMessage DEF Always, Threads
  <2>2. Unmoved(call[m.from], call'[m.from])
    BY <2>1 DEF WaitingPlaces
  <2>. QED BY <1>1, <2>1, <2>2 DEF AskedThere, Unmoved, Waited
<1>. QED BY <1>4, <1>5, <1>7, <1>8 DEF Told

\* One thread that changes.
LEMMA OneTold ==
  ASSUME Always, Told, Alive, NEW t \in Threads, NEW q \in Thread, thread' = [thread EXCEPT ![t] = q],
         q.key = thread[t].key, q.flag = thread[t].flag,
         Over(thread, t) => q.st \in {"closed", "ended"}, stopping = "no" => q.st \in {"boot", "up"},
         \A m : In(q.inbox, m) => In(thread[t].inbox, m),
         \A c \in Conns :
           /\ Unmoved(call[c], call'[c])
           /\ call'[c].at \in WaitingPlaces /\ call'[c].ans = Dropped =>
                call[c].ans = Dropped \/ (Waited(call[c]) = t /\ q.st \in {"closed", "ended"}),
         UNCHANGED worlds \/ \E k : GaveUpOn(thread, k) /\ worlds' = Restrict(worlds, DOMAIN worlds \ {k}),
         UNCHANGED <<stopping, drained>>
  PROVE  Told'
<1>1. Shape /\ t \in 1..Len(thread)
  BY DEF Always, Threads
<1>2. Len(thread') = Len(thread) /\ thread'[t] = q /\ \A u \in 1..Len(thread) : u # t => thread'[u] = thread[u]
  BY <1>1, Setting
<1>3. Threads' = Threads
  BY <1>2 DEF Threads
<1>4. stopping = "no" => \A u \in Threads : thread[u].st \in {"boot", "up"}
  BY DEF Told, OneThreadEach
<1>5. \A u \in Threads :
           /\ thread'[u].key = thread[u].key /\ thread'[u].flag = thread[u].flag
           /\ Over(thread, u) => Over(thread', u)
           /\ stopping = "no" => thread'[u].st \in {"boot", "up"}
           /\ \A m : In(thread'[u].inbox, m) => In(thread[u].inbox, m)
  BY <1>2, <1>4 DEF Threads, Over
<1>6. \A c \in Conns : call'[c].at \in WaitingPlaces /\ call'[c].ans = Dropped => call[c].ans = Dropped \/ Over(thread', Waited(call[c]))
  BY <1>2 DEF Over
<1>. QED BY <1>3, <1>5, <1>6, ThreadTold

\* The thread loads its save.
LEMMA BootUpTold == ASSUME Always, Told, Alive, NEW t \in Threads, BootUp(t), UNCHANGED drained PROVE Told'
<1> DEFINE q == [thread[t] EXCEPT !.st = "up", !.people = file[thread[t].key]]
<1>1. t \in 1..Len(thread)
  BY DEF Threads
<1>2. thread' = [thread EXCEPT ![t] = q] /\ UNCHANGED <<worlds, call, stopping>> /\ thread[t].st = "boot"
  BY <1>1, Itself DEF BootUp
<1>3. /\ q \in Thread /\ q.key = thread[t].key /\ q.flag = thread[t].flag /\ q.inbox = thread[t].inbox /\ q.st = "up"
  BY <1>1, Itself DEF Thread, Sts
<1>4. \A c \in Conns : Unmoved(call[c], call'[c]) /\ call'[c].ans = call[c].ans
  BY <1>2, SameCall
<1> HIDE DEF q
<1>. QED BY <1>2, <1>3, <1>4, OneTold DEF Over

\* Out of the loop, because it was told to stop.
LEMMA QuitTold == ASSUME Always, Told, Undisturbed, NEW t \in Threads, Quit(t), UNCHANGED drained PROVE Told'
<1> DEFINE q == [thread[t] EXCEPT !.st = "leaving"]
<1>1. t \in 1..Len(thread) /\ Alive
  BY DEF Threads, Quit
<1>2. thread' = [thread EXCEPT ![t] = q] /\ UNCHANGED <<worlds, call, stopping>> /\ thread[t].st = "up"
  BY <1>1, Itself DEF Quit
<1>3. /\ q \in Thread /\ q.key = thread[t].key /\ q.flag = thread[t].flag /\ q.inbox = thread[t].inbox /\ q.st = "leaving"
  BY <1>1, Itself DEF Thread, Sts
<1>4. \A c \in Conns : Unmoved(call[c], call'[c]) /\ call'[c].ans = call[c].ans
  BY <1>2, SameCall
<1>5. thread[t].flag
  <2> DEFINE gone == {u \in Threads : thread[u].st \in {"leaving", "closed", "ended"}}
  <2>1. IsFiniteSet(Threads)
    BY FS_Interval DEF Threads, Always, Shape
  <2>2. Cardinality(gone) \in Nat
    BY <2>1, FS_Subset, FS_CardinalityType
  <2>3. ~MayIdle
    <3>1. MayIdle => Cardinality(gone) < 0
      BY DEF Undisturbed, MayIdle
    <3> HIDE DEF gone
    <3>. QED BY <2>2, <3>1
  <2>. QED BY <2>3 DEF Quit
<1>6. stopping # "no"
  BY <1>5 DEF Told, OneThreadEach
<1> HIDE DEF q
<1>. QED BY <1>1, <1>2, <1>3, <1>4, <1>6, OneTold DEF Over

\* Its entry goes when it is over.
LEMMA EndThreadTold == ASSUME Always, Told, Alive, NEW t \in Threads, EndThread(t), UNCHANGED drained PROVE Told'
<1> DEFINE q == [thread[t] EXCEPT !.st = "ended"]
<1>1. t \in 1..Len(thread)
  BY DEF Threads
<1>2. /\ thread' = [thread EXCEPT ![t] = q] /\ UNCHANGED <<call, stopping>> /\ thread[t].st = "closed"
      /\ worlds' = Restrict(worlds, DOMAIN worlds \ {thread[t].key})
  BY <1>1, Itself DEF EndThread
<1>3. /\ q \in Thread /\ q.key = thread[t].key /\ q.flag = thread[t].flag /\ q.inbox = thread[t].inbox /\ q.st = "ended"
  BY <1>1, Itself DEF Thread, Sts
<1>4. \A c \in Conns : Unmoved(call[c], call'[c]) /\ call'[c].ans = call[c].ans
  BY <1>2, SameCall
<1>5. GaveUpOn(thread, thread[t].key) /\ stopping # "no"
  BY <1>1, <1>2 DEF GaveUpOn, Over, Told, OneThreadEach
<1> HIDE DEF q
<1>. QED BY <1>2, <1>3, <1>4, <1>5, OneTold

\* The final save: who waited for it learns that it is over.
LEMMA CloseTold == ASSUME Always, Told, Alive, NEW t \in Threads, Close(t), UNCHANGED drained PROVE Told'
<1> DEFINE q == [thread[t] EXCEPT !.st = "closed", !.inbox = <<>>, !.guests = {}]
<1>1. t \in 1..Len(thread) /\ UNCHANGED <<worlds, stopping>> /\ thread[t].st = "leaving"
  BY DEF Threads, Close
<1>2. thread' = [thread EXCEPT ![t] = q]
  BY <1>1, Itself DEF Close
<1>3. /\ q \in Thread /\ q.key = thread[t].key /\ q.flag = thread[t].flag /\ q.inbox = <<>> /\ q.st = "closed"
  BY <1>1, Itself, InNone DEF Thread, Sts
<1>4. \A m : ~In(q.inbox, m)
  BY <1>3, InNone
<1>5. stopping # "no"
  BY <1>1 DEF Told, OneThreadEach
<1>6. \A c \in Conns :
        \/ call'[c] = call[c]
        \/ /\ call'[c] = [call[c] EXCEPT !.ans = Dropped]
           /\ \E i \in DOMAIN thread[t].inbox : thread[t].inbox[i].from = c /\ thread[t].inbox[i].seq = call[c].seq
  BY DEF Close
<1>7. ASSUME NEW c \in Conns
      PROVE  /\ Unmoved(call[c], call'[c])
             /\ call'[c].at \in WaitingPlaces /\ call'[c].ans = Dropped =>
                  call[c].ans = Dropped \/ (Waited(call[c]) = t /\ q.st \in {"closed", "ended"})
  <2>1. CASE call'[c] = call[c]
    BY <2>1, SameCall
  <2>2. ASSUME call'[c] = [call[c] EXCEPT !.ans = Dropped],
               NEW i \in DOMAIN thread[t].inbox, thread[t].inbox[i].from = c /\ thread[t].inbox[i].seq = call[c].seq
        PROVE  /\ Unmoved(call[c], call'[c])
               /\ call'[c].at \in WaitingPlaces => Waited(call[c]) = t
    <3>1. Unmoved(call[c], call'[c])
      BY <2>2, SameCall DEF Call, Unmoved
    <3>2. In(thread[t].inbox, thread[t].inbox[i])
      BY <1>1, <2>2, Itself DEF In
    <3>3. call[c].at \in WaitingPlaces => t = Waited(call[c])
      BY <2>2, <3>2 DEF Told, AskedThere
    <3>. QED BY <3>1, <3>3 DEF Unmoved
  <2>. QED BY <1>3, <1>6, <2>1, <2>2
<1> HIDE DEF q
<1>. QED BY <1>1, <1>2, <1>3, <1>4, <1>5, <1>7, OneTold

\* An answer is not a dropped line.
LEMMA RepliesAnswer ==
  ASSUME Always, NEW m, m.from \in Conns, NEW answer, answer # Dropped, call' = Reply(m, answer), NEW c \in Conns
  PROVE  Unmoved(call[c], call'[c]) /\ (call'[c].ans = Dropped => call[c].ans = Dropped)
<1>1. call \in [Conns -> Call] /\ call[c] \in Call
  BY DEF Always, Shape
<1>2. call'[c] = call[c] \/ call'[c] = [call[c] EXCEPT !.ans = answer]
  BY <1>1 DEF Reply
<1>. QED BY <1>1, <1>2 DEF Unmoved, Call

\* One message.
LEMMA HandleTold == ASSUME Always, Told, Alive, Always', NEW t \in Threads, Handle(t), UNCHANGED drained PROVE Told'
<1>1. t \in 1..Len(thread) /\ thread[t] \in Thread /\ thread[t].inbox \in Seq(Message)
  BY Itself DEF Threads
<1>2. /\ thread[t].inbox # <<>> /\ UNCHANGED <<worlds, file, stopping>> /\ thread[t].st = "up"
      /\ \E people, guests :
           /\ thread' = [thread EXCEPT ![t] = Hearing(t, people, guests)]
           /\ UNCHANGED call \/ \E answer : answer # Dropped /\ call' = Reply(Head(thread[t].inbox), answer)
  <2>1. \A v : Answer(v) # Dropped /\ Ungraduated # Dropped
    BY DEF Answer, Dropped, Ungraduated
  <2>2. thread[t].st = "up"
    BY DEF Handle
  <2>. QED BY <2>1, <2>2, HandleIs
<1>3. PICK people, guests :
           /\ thread' = [thread EXCEPT ![t] = Hearing(t, people, guests)]
           /\ UNCHANGED call \/ \E answer : answer # Dropped /\ call' = Reply(Head(thread[t].inbox), answer)
  BY <1>2
<1>4. /\ Head(thread[t].inbox).from \in Conns
      /\ \A x : In(Tail(thread[t].inbox), x) => In(thread[t].inbox, x)
  BY <1>1, <1>2, InTail DEF Message
<1>5. \A c \in Conns : Unmoved(call[c], call'[c]) /\ (call'[c].ans = Dropped => call[c].ans = Dropped)
  BY <1>3, <1>4, SameCall, RepliesAnswer
<1> DEFINE q == Hearing(t, people, guests)
<1>6. q.key = thread[t].key /\ q.flag = thread[t].flag /\ q.st = "up" /\ q.inbox = Tail(thread[t].inbox)
  BY <1>1, <1>2 DEF Hearing, Thread
<1>7. thread' = [thread EXCEPT ![t] = q]
  BY <1>3
<1>8. q \in Thread
  <2>1. thread \in Seq(Thread) /\ thread' \in Seq(Thread) /\ thread'[t] = q /\ Len(thread') = Len(thread)
    BY <1>1, <1>7 DEF Always, Shape
  <2>. QED BY <1>1, <2>1
<1> HIDE DEF q
<1>. QED BY ZenonT(60), <1>2, <1>4, <1>5, <1>6, <1>7, <1>8, OneTold DEF Over

-----------------------------------------------------------------------------
(* To the end *)

\* A client asks to go somewhere.
LEMMA BeginTold ==
  ASSUME Always, Told, NEW c \in Conns, NEW goal \in {"login", "central", "home"}, Begin(c, goal), UNCHANGED drained
  PROVE  Told'
<1>1. /\ Alive /\ UNCHANGED <<worlds, stopping>> /\ thread' = [t \in Threads |-> [thread[t] EXCEPT !.guests = thread[t].guests \ {c}]]
      /\ call' = [call EXCEPT ![c] = [Outside EXCEPT !.goal = goal, !.seq = call[c].seq, !.at = IF goal = "login" THEN "own" ELSE "lock"]]
  BY DEF Begin
<1>2. \A t \in Threads : /\ thread'[t].key = thread[t].key /\ thread'[t].flag = thread[t].flag
                         /\ thread'[t].st = thread[t].st /\ thread'[t].inbox = thread[t].inbox
  BY <1>1, Itself DEF Threads, Thread
<1>3. Threads' = Threads
  <2>1. thread \in Seq(Thread) /\ Len(thread) \in Nat
    BY DEF Always, Shape
  <2>2. Len(thread') = Len(thread)
    BY <1>1, <2>1 DEF Threads
  <2>. QED BY <2>2 DEF Threads
<1>4. stopping = "no" => \A t \in Threads : thread[t].st \in {"boot", "up"}
  BY DEF Told, OneThreadEach
<1>5. \A t \in Threads :
           /\ thread'[t].key = thread[t].key /\ thread'[t].flag = thread[t].flag
           /\ Over(thread, t) => Over(thread', t)
           /\ stopping = "no" => thread'[t].st \in {"boot", "up"}
           /\ \A m : In(thread'[t].inbox, m) => In(thread[t].inbox, m)
  BY <1>2, <1>4 DEF Over
<1>6. \A d \in Conns : \/ Unmoved(call[d], call'[d]) /\ call'[d].ans = call[d].ans
                       \/ call'[d].at \in {"own", "lock"}
  <2> SUFFICES ASSUME NEW d \in Conns
               PROVE  \/ Unmoved(call[d], call'[d]) /\ call'[d].ans = call[d].ans
                      \/ call'[d].at \in {"own", "lock"}
    OBVIOUS
  <2>1. call \in [Conns -> Call] /\ Unmoved(call[d], call[d])
    BY SameCall DEF Always, Shape
  <2>2. CASE d = c
    BY <1>1, <2>1, <2>2 DEF Outside
  <2>3. CASE d # c
    <3>1. call'[d] = call[d]
      BY <1>1, <2>1, <2>3
    <3>. QED BY <2>1, <3>1
  <2>. QED BY <2>2, <2>3
<1>. QED BY <1>1, <1>3, <1>5, <1>6, ThreadTold

\* Whoever is told to stop is the only one of its world.
LEMMA StopAllTold == ASSUME Always, Told, StopAll PROVE Told'
<1>1. /\ stopping = "no" /\ stopping' = "flagged" /\ UNCHANGED <<worlds, call>>
      /\ thread' = [t \in Threads |-> IF \E k \in DOMAIN worlds : worlds[k] = t THEN [thread[t] EXCEPT !.flag = TRUE] ELSE thread[t]]
  BY DEF StopAll
<1>2. \A t \in Threads : thread'[t].key = thread[t].key /\ thread'[t].st = thread[t].st /\ thread'[t].inbox = thread[t].inbox
  BY <1>1, Itself DEF Threads, Thread
<1>3. Threads' = Threads
  <2>1. thread \in Seq(Thread) /\ Len(thread) \in Nat
    BY DEF Always, Shape
  <2>2. Len(thread') = Len(thread)
    BY <1>1, <2>1 DEF Threads
  <2>. QED BY <2>2 DEF Threads
<1>4. \A t \in Threads : OnlyOne(t)
  BY <1>1 DEF Told, OneThreadEach, OnlyOne
<1>5. OneThreadEach'
  BY <1>1 DEF OneThreadEach
<1>6. ToldIsFound'
  <2>1. \A t \in Threads' : OnlyOne(t)'
    BY <1>1, <1>2, <1>3, <1>4 DEF OnlyOne
  <2>. QED BY <1>1, <2>1 DEF ToldIsFound
<1>7. \A k : GaveUpOn(thread, k) => GaveUpOn(thread', k)
  BY <1>2, <1>3 DEF GaveUpOn, Over, Threads
<1>8. \A c \in Conns : call[c].at \in WaitingPlaces => Waited(call[c]) \in Threads
  <2> SUFFICES ASSUME NEW c \in Conns, call[c].at \in WaitingPlaces PROVE Waited(call[c]) \in Threads
    OBVIOUS
  <2>. QED BY Knows DEF Points, Runs, Waited, WaitingPlaces, OwnPlaces, CenPlaces, Threads
<1>9. GivesUpRightly'
  BY <1>1, <1>2, <1>7, <1>8 DEF Told, GivesUpRightly, Over
<1>10. AskedThere'
  BY <1>1, <1>2, <1>3 DEF Told, AskedThere
<1>. QED BY <1>5, <1>6, <1>9, <1>10 DEF Told

\* Main waits for all that was told to stop, and returns when it is over.
LEMMA MainTold == ASSUME Always, Told, JoinAll \/ MainReturns PROVE Told'
<1>1. UNCHANGED <<thread, call>> /\ stopping \in {"flagged", "joining"} /\ stopping' \in {"joining", "exited"}
  BY DEF JoinAll, MainReturns
<1>2. OneThreadEach' /\ Threads' = Threads
  BY <1>1 DEF OneThreadEach, Threads
<1>3. AskedThere' /\ GivesUpRightly'
  BY <1>1, <1>2 DEF Told, AskedThere, GivesUpRightly
<1>4. ToldIsFound'
  <2>1. CASE JoinAll
    <3>1. stopping = "flagged" /\ stopping' = "joining" /\ drained' = {worlds[k] : k \in DOMAIN worlds}
      BY <2>1 DEF JoinAll
    <3>2. \A t \in Threads : thread[t].flag /\ ~Over(thread, t) => t \in drained'
      BY <3>1 DEF Told, ToldIsFound, OnlyOne
    <3>. QED BY <1>1, <1>2, <3>1, <3>2 DEF ToldIsFound
  <2>2. CASE MainReturns
    <3>1. stopping = "joining" /\ stopping' = "exited" /\ UNCHANGED drained /\ \A t \in drained : Over(thread, t)
      BY <2>2 DEF MainReturns, Joined, Over
    <3>. QED BY <1>1, <1>2, <3>1 DEF Told, ToldIsFound
  <2>. QED BY <2>1, <2>2
<1>. QED BY <1>2, <1>3, <1>4 DEF Told

\* A call's next step happens before the process exits.
LEMMA CallsAlive == ASSUME NEW c \in Conns, CallStep(c) PROVE Alive
BY DEF CallStep, Lock, Own, JoinOwn, Joining, ForgetOwn, OwnAgain, Cen, Count, Counting, Stale, Recheck, Extract,
   Extracting, Inject, Enter, Entering, Find, Fetch, Fetching, Settle, Settling, PutBack, At

\* A call's next step.
LEMMA CallsTold == ASSUME Always, Told, Undisturbed, NEW c \in Conns, Calls(c) PROVE Told'
<1>1. UNCHANGED <<case, drained>> /\ CallStep(c) /\ Alive /\ Always'
  BY CallsAlive, CallsKeep DEF Calls
<1>2. \/ Lock(c) \/ Own(c) \/ JoinOwn(c) \/ Joining(c) \/ ForgetOwn(c) \/ OwnAgain(c)
      \/ Cen(c) \/ Count(c) \/ Counting(c) \/ Stale(c) \/ Recheck(c)
      \/ Extract(c) \/ Extracting(c) \/ Inject(c) \/ Enter(c) \/ Entering(c)
      \/ Find(c) \/ Fetch(c) \/ Fetching(c) \/ Settle(c) \/ Settling(c) \/ PutBack(c)
  BY <1>1 DEF CallStep
<1>3. CASE Lock(c) \/ Own(c) \/ JoinOwn(c) \/ Joining(c) \/ ForgetOwn(c) \/ OwnAgain(c)
  BY <1>1, <1>3, LockTold, OwnTold, JoinOwnTold, JoiningTold, ForgetOwnTold, OwnAgainTold
<1>4. CASE Cen(c) \/ Count(c) \/ Counting(c) \/ Stale(c) \/ Recheck(c)
  BY <1>1, <1>4, CenTold, CountTold, CountingTold, StaleTold, RecheckTold
<1>5. CASE Extract(c) \/ Extracting(c) \/ Inject(c) \/ Enter(c) \/ Entering(c)
  BY <1>1, <1>5, ExtractTold, ExtractingTold, InjectTold, EnterTold, EnteringTold
<1>6. CASE Find(c) \/ Fetch(c) \/ Fetching(c) \/ Settle(c) \/ Settling(c) \/ PutBack(c)
  BY <1>1, <1>6, FindTold, FetchTold, FetchingTold, SettleTold, SettlingTold, PutBackTold
<1>. QED BY <1>2, <1>3, <1>4, <1>5, <1>6

\* A thread's next step.
LEMMA LivesTold == ASSUME Always, Told, Undisturbed, NEW t \in Threads, Lives(t) PROVE Told'
<1>1. UNCHANGED <<case, drained>> /\ ThreadStep(t) /\ Always'
  BY LivesKeep DEF Lives
<1>2. Alive
  BY <1>1 DEF ThreadStep, BootUp, Handle, Quit, Close, EndThread
<1>. QED BY <1>1, <1>2, BootUpTold, HandleTold, QuitTold, CloseTold, EndThreadTold DEF ThreadStep

\* The case is the one it began with.
ToldToo == Always /\ (Undisturbed => Told)

\* Undisturbed, a world has one thread until the process is told to stop, and
\* every thread told to stop is found by join_all or over already.
THEOREM ThreadsAccountedFor == Spec => []ToldToo
<1>1. Init => ToldToo
  <2> SUFFICES ASSUME Init PROVE Told
    BY AtFirst DEF ToldToo
  <2>1. Threads = {} /\ stopping = "no" /\ \A c \in Conns : call[c].at = "out"
    BY DEF Init, Threads, Outside
  <2>. QED BY <2>1 DEF Told, OneThreadEach, AskedThere, GivesUpRightly, ToldIsFound, WaitingPlaces
<1>2. ToldToo /\ [Next]_vars => ToldToo'
  <2> SUFFICES ASSUME Always, Undisturbed => Told, [Next]_vars PROVE ToldToo'
    BY DEF ToldToo
  <2>1. Always' /\ (Undisturbed' => Undisturbed)
    BY NextKeeps DEF Undisturbed
  <2>2. ASSUME Undisturbed, Told PROVE Told'
    <3>1. CASE \E c \in Conns : \E goal \in {"login", "central", "home"} : Begin(c, goal) /\ UNCHANGED case
      BY <2>2, <3>1, BeginTold DEF Begin
    <3>2. CASE \E c \in Conns : Calls(c)
      BY <2>2, <3>2, CallsTold
    <3>3. CASE \E t \in Threads : Lives(t)
      BY <2>2, <3>3, LivesTold
    <3>4. CASE StopAll /\ UNCHANGED case
      BY <2>2, <3>4, StopAllTold
    <3>5. CASE JoinsAll \/ Exits
      BY <2>2, <3>5, MainTold DEF JoinsAll, Exits
    <3>6. CASE UNCHANGED vars
      BY <2>2, <3>6 DEF vars, Told, OneThreadEach, AskedThere, GivesUpRightly, ToldIsFound, OnlyOne, Threads
    <3>. QED BY <3>1, <3>2, <3>3, <3>4, <3>5, <3>6 DEF Next
  <2>. QED BY <2>1, <2>2 DEF ToldToo
<1>. QED BY <1>1, <1>2, PTL DEF Spec

\* As long as no world has idled out and no wait has run out, a world told to
\* stop has made its final save by the time the process exits.
THEOREM ToldAlwaysSaved == Spec => []ToldWorldsSaved
<1>1. ToldToo => ToldWorldsSaved
  BY DEF ToldToo, Told, ToldIsFound, ToldWorldsSaved, Over
<1>. QED BY <1>1, ThreadsAccountedFor, PTL

-----------------------------------------------------------------------------
(* The census: how a trip keeps everybody *)

\* The first word of a call says where it can be, as long as nothing it waits for is lost.
LoginPlaces   == {"own", "join", "joining"}
CentralPlaces == {"lock", "cen", "count", "counting", "recheck", "own", "extract", "extracting", "inject", "enter", "entering"}
HomePlaces    == {"lock", "own", "find", "fetch", "fetching", "settle", "settling", "putback", "join", "joining"}
Purposeful(r) ==
  \/ r.goal = "none" /\ r.at \in {"out", "in"}
  \/ r.goal = "login" /\ r.at \in LoginPlaces
  \/ r.goal = "central" /\ r.at \in CentralPlaces
  \/ r.goal = "home" /\ r.at \in HomePlaces

\* A call on a trip holds the entry lock.
Trip(r) == r.goal \in {"central", "home"} /\ r.at # "lock"
Alone == \A c \in Conns : Purposeful(call[c]) /\ (Trip(call[c]) => entry = c)

\* What only the call has of the settlers.
Hand(r) ==
  IF r.at \in {"extracting", "fetching"} THEN IF r.ans.is = "value" THEN r.ans.value ELSE {}
  ELSE IF r.at = "settling" /\ r.ans.is = "value" THEN Leftover(r.held, r.ans.value)
  ELSE IF r.at \in {"inject", "settle", "settling", "putback"} THEN r.held ELSE {}

\* A call that has heard of the central world since it took the lock.
Clear(r) ==
  \/ r.at \in {"counting", "fetching"} /\ r.ans.is = "value"
  \/ r.at \in {"recheck", "extract", "extracting", "inject", "settle", "settling", "putback"}
  \/ r.at = "own" /\ r.goal = "central"

\* Whatever a thread was asked, somebody still waits for.
Awaited(m, r) ==
  m.kind # "inject" => /\ m.seq = r.seq /\ r.at \in WaitingPlaces /\ r.ans = Waiting
                       /\ m.kind = "returnees" => m.arg = r.held
                       /\ m.kind = "extract" => m.arg = r.want

\* What may be put behind a message: one question of each call at most, settlers
\* behind no other settlers and behind nobody who asks after them.
May(m, n) == IF n.kind = "inject" THEN m.kind \notin {"inject", "count", "settlers"}
                                  ELSE m.kind = "inject" \/ m.from # n.from
Sorted(q) == \A i, j \in 1..Len(q) : i < j => May(q[i], q[j])

Letters == \A t \in Threads : Sorted(thread[t].inbox) /\ \A m : In(thread[t].inbox, m) => Awaited(m, call[m.from])

\* Settlers underway in a message fit in, are not at home any more, and nobody has
\* asked the central world of them.
Underway(m, O, C) == /\ m.arg \cap O = {} /\ Cardinality(Owned(Me(m.from), C)) + Cardinality(m.arg) <= GroupCap
                     /\ \A c \in Conns : ~Clear(call[c])
Sent == \A t \in Threads : \A m : In(thread[t].inbox, m) /\ m.kind = "inject" =>
          Underway(m, PeopleOf(Me(m.from)), PeopleOf(Central))

\* What a call knows of the central world (C) stays true, and whom it has in hand is not at home (O).
Fine(c, r, O, C) ==
  /\ Hand(r) \cap O = {}
  /\ ~Clear(r) => Hand(r) = {}
  /\ Clear(r) => Cardinality(Owned(Me(c), C)) + Cardinality(Hand(r)) <= GroupCap
  /\ r.at = "counting" /\ r.ans.is = "value" => r.ans.value = Cardinality(Owned(Me(c), C))
  /\ r.at \in {"recheck", "own", "extract", "extracting"} /\ r.goal = "central" => Cardinality(Owned(Me(c), C)) + r.want <= GroupCap
  /\ (r.at = "fetching" /\ r.ans.is = "value") \/ r.at \in {"settle", "settling", "putback"} => Owned(Me(c), C) = {}
Informed == \A c \in Conns : Fine(c, call[c], PeopleOf(Me(c)), PeopleOf(Central))

\* Everybody is somewhere, and nobody in two worlds.
Somewhere(a, s) ==
  \/ s \in PeopleOf(a) \/ s \in PeopleOf(Central)
  \/ \E c \in Conns : s \in Hand(call[c])
  \/ \E t \in Threads : \E m : In(thread[t].inbox, m) /\ m.kind = "inject" /\ s \in m.arg
Everyone == \A a \in Accounts : /\ PeopleOf(a) \cap PeopleOf(Central) = {} /\ \A s \in Born[a] : Somewhere(a, s)

Census == Alone /\ Letters /\ Sent /\ Informed /\ Everyone

Calm == Always /\ Told /\ Undisturbed /\ stopping = "no" /\ Census

-----------------------------------------------------------------------------
(* Queues in order *)

\* What may stand behind everything in a queue keeps it in order at its end, ...
LEMMA SortedAppend ==
  ASSUME NEW q \in Seq(Message), NEW m \in Message, Sorted(q), \A x : In(q, x) => May(x, m)
  PROVE  Sorted(Append(q, m))
<1>1. Len(Append(q, m)) = Len(q) + 1 /\ Len(q) \in Nat
  OBVIOUS
<1>2. Append(q, m)[Len(q) + 1] = m /\ \A i \in 1..Len(q) : Append(q, m)[i] = q[i]
  OBVIOUS
<1> DEFINE Q == Append(q, m)
           n == Len(q)
<1> HIDE DEF Q
<1>3. ASSUME NEW i \in 1..(n + 1), NEW j \in 1..(n + 1), i < j PROVE May(Q[i], Q[j])
  <2>1. i \in 1..n
    BY <1>1, <1>3
  <2>2. CASE j \in 1..n
    BY <1>2, <1>3, <2>1, <2>2 DEF Sorted, Q
  <2>3. CASE j = n + 1
    BY <1>2, <2>1, <2>3 DEF In, Q
  <2>. QED BY <1>1, <1>3, <2>2, <2>3
<1>. QED BY <1>1, <1>3 DEF Sorted, Q

\* ... taking the first message does, and whatever is left may stand behind it, ...
LEMMA SortedTail ==
  ASSUME NEW q \in Seq(Message), q # <<>>, Sorted(q)
  PROVE  Sorted(Tail(q)) /\ \A x : In(Tail(q), x) => May(Head(q), x)
<1>1. Tail(q) \in Seq(Message) /\ Len(Tail(q)) = Len(q) - 1 /\ Len(q) \in Nat /\ Len(q) > 0 /\ Head(q) = q[1]
  OBVIOUS
<1>2. \A i \in 1..Len(Tail(q)) : Tail(q)[i] = q[i + 1]
  OBVIOUS
<1>3. \A i \in 1..(Len(q) - 1) : i + 1 \in 1..Len(q) /\ 1 < i + 1
  BY <1>1
<1>4. 1 \in 1..Len(q)
  BY <1>1
<1>5. \A x : In(Tail(q), x) => May(Head(q), x)
  BY <1>1, <1>2, <1>3, <1>4 DEF In, Sorted
<1>6. ASSUME NEW i \in 1..Len(Tail(q)), NEW j \in 1..Len(Tail(q)), i < j PROVE May(Tail(q)[i], Tail(q)[j])
  <2>1. i + 1 \in 1..Len(q) /\ j + 1 \in 1..Len(q) /\ i + 1 < j + 1
    BY <1>1, <1>3, <1>6
  <2>. QED BY <1>2, <2>1 DEF Sorted
<1>. QED BY <1>5, <1>6 DEF Sorted

\* ... and so is an empty queue.
LEMMA SortedNone == Sorted(<<>>)
<1>1. Len(<<>>) = 0
  OBVIOUS
<1>. QED BY <1>1 DEF Sorted

-----------------------------------------------------------------------------
(* Where people are *)

\* The people of a world are those of its one thread, or of its save, and they belong there.
LEMMA OneHome ==
  ASSUME Always, Told, stopping = "no"
  PROVE  /\ \A t \in Threads : /\ thread[t].st \in {"boot", "up"} /\ Hears(t)
                               /\ thread[t].st = "up" => PeopleOf(thread[t].key) = thread[t].people
                               /\ thread[t].st = "boot" => PeopleOf(thread[t].key) = file[thread[t].key]
         /\ \A t, u \in Threads : thread[t].key = thread[u].key => t = u
         /\ \A k \in Keys : Fits(k, PeopleOf(k))
<1>1. \A t \in Threads : thread[t].st \in {"boot", "up"} /\ worlds[thread[t].key] = t
  BY DEF Told, OneThreadEach
<1>2. \A t, u \in Threads : thread[t].key = thread[u].key => t = u
  BY <1>1
<1>3. ASSUME NEW t \in Threads, thread[t].st = "up" PROVE PeopleOf(thread[t].key) = thread[t].people
  <2>1. Running(thread[t].key) = {t}
    BY <1>2, <1>3 DEF Running
  <2>. QED BY <2>1 DEF PeopleOf
<1>4. ASSUME NEW t \in Threads, thread[t].st = "boot" PROVE PeopleOf(thread[t].key) = file[thread[t].key]
  <2>1. Running(thread[t].key) = {}
    BY <1>2, <1>4 DEF Running
  <2>. QED BY <2>1 DEF PeopleOf
<1>5. ASSUME NEW k \in Keys PROVE Fits(k, PeopleOf(k))
  <2>1. CASE Running(k) = {}
    BY <2>1 DEF Always, Saved, PeopleOf
  <2>2. CASE Running(k) # {}
    <3>1. PICK t \in Threads : thread[t].key = k /\ thread[t].st \in {"up", "leaving"}
      BY <2>2 DEF Running
    <3>2. PeopleOf(k) = thread[t].people
      BY <1>1, <1>3, <3>1
    <3>3. Fits(k, thread[t].people)
      BY <3>1 DEF Always, Lodged, Threads
    <3>. QED BY <3>2, <3>3
  <2>. QED BY <2>1, <2>2
<1>. QED BY <1>1, <1>2, <1>3, <1>4, <1>5 DEF Hears

\* The threads that live have people as they had, and those that are new none yet.
LEMMA SamePeople ==
  ASSUME UNCHANGED file,
         \A t \in Threads : /\ t \in Threads' /\ thread'[t].key = thread[t].key
                            /\ thread'[t].st = thread[t].st /\ thread'[t].people = thread[t].people,
         \A t \in Threads' : t \in Threads \/ thread'[t].st = "boot"
  PROVE  \A k : PeopleOf(k)' = PeopleOf(k)
<1> SUFFICES ASSUME NEW k PROVE PeopleOf(k)' = PeopleOf(k)
  OBVIOUS
<1>1. Running(k)' = Running(k)
  BY DEF Running
<1>2. \A t \in Running(k) : thread'[t].people = thread[t].people
  BY DEF Running
<1>3. {thread'[t].people : t \in Running(k)'} = {thread[t].people : t \in Running(k)}
  BY <1>1, <1>2
<1>. QED BY <1>1, <1>3 DEF PeopleOf

\* A step that sends nothing leaves people and mail where they were.
LEMMA MailKept ==
  ASSUME Always, Letters, thread' = thread \/ \E k \in Keys : thread' = Append(thread, Fresh(k)), UNCHANGED file
  PROVE  /\ \A k : PeopleOf(k)' = PeopleOf(k)
         /\ \A t \in Threads' : Sorted(thread'[t].inbox)
         /\ \A t \in Threads : \A m : In(thread[t].inbox, m) => t \in Threads' /\ In(thread'[t].inbox, m)
         /\ \A t \in Threads' : \A m : In(thread'[t].inbox, m) => t \in Threads /\ In(thread[t].inbox, m)
<1>1. CASE thread' = thread
  <2>1. Threads' = Threads
    BY <1>1 DEF Threads
  <2>2. \A k : PeopleOf(k)' = PeopleOf(k)
    BY <1>1, <2>1, SamePeople
  <2>. QED BY <1>1, <2>1, <2>2 DEF Letters
<1>2. ASSUME NEW k \in Keys, thread' = Append(thread, Fresh(k)) PROVE
         /\ \A x : PeopleOf(x)' = PeopleOf(x)
         /\ \A t \in Threads' : Sorted(thread'[t].inbox)
         /\ \A t \in Threads : \A m : In(thread[t].inbox, m) => t \in Threads' /\ In(thread'[t].inbox, m)
         /\ \A t \in Threads' : \A m : In(thread'[t].inbox, m) => t \in Threads /\ In(thread[t].inbox, m)
  <2>1. /\ \A t \in Threads : t \in Threads' /\ thread'[t] = thread[t]
        /\ \A t \in Threads' : t \in Threads \/ thread'[t] = Fresh(k)
    BY <1>2, Starting DEF Always, Threads
  <2>2. Fresh(k).st = "boot" /\ Fresh(k).inbox = <<>>
    BY DEF Fresh
  <2>3. \A x : PeopleOf(x)' = PeopleOf(x)
    BY <2>1, <2>2, SamePeople
  <2>. QED BY <2>1, <2>2, <2>3, SortedNone, InNone DEF Letters
<1>. QED BY <1>1, <1>2

\* So does one that sends a message, but for that message.
LEMMA MailPut ==
  ASSUME Always, Letters, NEW t \in 1..Len(thread), NEW m \in Message, Puts(t, m), UNCHANGED file,
         \A x : In(thread[t].inbox, x) => May(x, m)
  PROVE  /\ \A k : PeopleOf(k)' = PeopleOf(k)
         /\ \A u \in Threads' : Sorted(thread'[u].inbox)
         /\ \A u \in Threads : \A x : In(thread[u].inbox, x) => u \in Threads' /\ In(thread'[u].inbox, x)
         /\ \A u \in Threads' : \A x : In(thread'[u].inbox, x) => (u \in Threads /\ In(thread[u].inbox, x)) \/ (u = t /\ x = m)
         /\ t \in Threads' /\ In(thread'[t].inbox, m)
<1>1. /\ Threads' = Threads /\ t \in Threads
      /\ thread'[t] = [thread[t] EXCEPT !.inbox = Append(thread[t].inbox, m)]
      /\ \A u \in Threads :
              /\ u # t => thread'[u] = thread[u]
              /\ thread'[u].key = thread[u].key /\ thread'[u].st = thread[u].st /\ thread'[u].people = thread[u].people
      /\ \A x : In(thread'[t].inbox, x) <=> In(thread[t].inbox, x) \/ x = m
  BY Putting DEF Always, Threads
<1>2. \A k : PeopleOf(k)' = PeopleOf(k)
  BY <1>1, SamePeople
<1>3. thread[t] \in Thread
  BY DEF Always, Shape
<1>4. thread[t].inbox \in Seq(Message) /\ thread'[t].inbox = Append(thread[t].inbox, m)
  BY <1>1, <1>3 DEF Thread
<1>5. Sorted(thread[t].inbox)
  BY <1>1 DEF Letters
<1>6. Sorted(thread'[t].inbox)
  BY <1>4, <1>5, SortedAppend
<1>. QED BY <1>1, <1>2, <1>6 DEF Letters

-----------------------------------------------------------------------------
(* The step of a call *)

\* Only the call on a trip has heard anything.
LEMMA ClearTrips == ASSUME NEW r, Purposeful(r), Clear(r) PROVE Trip(r)
BY DEF Purposeful, Clear, Trip, LoginPlaces, CentralPlaces, HomePlaces

\* A call that has heard nothing and has nobody in hand knows nothing that could be wrong.
LEMMA FineIdle == ASSUME NEW c, NEW r, NEW O, NEW C, ~Clear(r), Hand(r) = {} PROVE Fine(c, r, O, C)
BY DEF Fine, Clear

\* Others than the one on a trip have heard nothing and have nobody in hand.
LEMMA OthersIdle ==
  ASSUME Calm, NEW c \in Conns, NEW d \in Conns, d # c, Trip(call[c]) PROVE ~Clear(call[d]) /\ Hand(call[d]) = {}
<1>1. entry = c
  BY DEF Calm, Census, Alone
<1>2. ~Trip(call[d])
  BY <1>1 DEF Calm, Census, Alone
<1>3. ~Clear(call[d])
  BY <1>2, ClearTrips DEF Calm, Census, Alone
<1>. QED BY <1>3 DEF Calm, Census, Informed, Fine

Fresher(c, r, m) ==
  /\ m.from = c /\ Awaited(m, r)
  /\ m.kind = "inject" =>
       /\ ~Clear(r) /\ Trip(call[c]) /\ m.arg \cap PeopleOf(Me(c)) = {}
       /\ Cardinality(Owned(Me(c), PeopleOf(Central))) + Cardinality(m.arg) <= GroupCap

Free(r) == ~(r.at \in WaitingPlaces /\ r.ans = Waiting)

\* The step of a call: it may know less than before, or as much, and whom it had in hand
\* it still has, or has sent to the central world.
LEMMA StepCensus ==
  ASSUME Calm, NEW c \in Conns, NEW r \in Call, Turns(c, r), Free(call[c]),
         \A k : PeopleOf(k)' = PeopleOf(k),
         Purposeful(r), Trip(r) => entry' = c, \A d \in Conns : d # c /\ entry = d => entry' = d,
         Clear(r) => Clear(call[c]), Fine(c, r, PeopleOf(Me(c)), PeopleOf(Central)),
         \A t \in Threads' : Sorted(thread'[t].inbox),
         \A t \in Threads : \A m : In(thread[t].inbox, m) => t \in Threads' /\ In(thread'[t].inbox, m),
         \A t \in Threads' : \A m : In(thread'[t].inbox, m) => (t \in Threads /\ In(thread[t].inbox, m)) \/ Fresher(c, r, m),
         \A s \in Hand(call[c]) : s \in Hand(r) \/ \E t \in Threads' : \E m : In(thread'[t].inbox, m) /\ m.kind = "inject" /\ s \in m.arg
  PROVE  Census'
<1>1. call'[c] = r /\ \A d \in Conns : d # c => call'[d] = call[d]
  BY Turning DEF Calm, Always
<1>2. Alone /\ Letters /\ Sent /\ Informed /\ Everyone
  BY DEF Calm, Census
<1>3. Alone'
  BY <1>1, <1>2 DEF Alone
<1>4. \A d \in Conns : Clear(call'[d]) => Clear(call[d])
  BY <1>1
<1>5. \A t \in Threads : \A m : In(thread[t].inbox, m) => m.from \in Conns
  BY InMessage DEF Calm, Always, Threads
<1>6. Letters'
  <2> SUFFICES ASSUME NEW t \in Threads', NEW m, In(thread'[t].inbox, m) PROVE Awaited(m, call'[m.from])
    BY DEF Letters
  <2>1. CASE Fresher(c, r, m)
    BY <1>1, <2>1 DEF Fresher
  <2>2. CASE t \in Threads /\ In(thread[t].inbox, m)
    <3>1. Awaited(m, call[m.from]) /\ m.from \in Conns
      BY <1>2, <1>5, <2>2 DEF Letters
    <3>2. CASE m.from = c
      BY <3>1, <3>2 DEF Awaited, Free
    <3>3. CASE m.from # c
      BY <1>1, <3>1, <3>3
    <3>. QED BY <3>2, <3>3
  <2>. QED BY <2>1, <2>2
<1>7. Sent'
  <2> SUFFICES ASSUME NEW t \in Threads', NEW m, In(thread'[t].inbox, m), m.kind = "inject"
               PROVE  Underway(m, PeopleOf(Me(m.from)), PeopleOf(Central))'
    BY DEF Sent
  <2>1. PeopleOf(Me(m.from))' = PeopleOf(Me(m.from)) /\ PeopleOf(Central)' = PeopleOf(Central)
    BY DEF Me
  <2>2. CASE Fresher(c, r, m)
    <3>1. \A d \in Conns : ~Clear(call'[d])
      BY <1>1, <2>2, OthersIdle DEF Fresher
    <3>. QED BY <2>1, <2>2, <3>1 DEF Fresher, Underway
  <2>3. CASE t \in Threads /\ In(thread[t].inbox, m)
    <3>1. Underway(m, PeopleOf(Me(m.from)), PeopleOf(Central))
      BY <1>2, <2>3 DEF Sent
    <3>. QED BY <1>4, <2>1, <3>1 DEF Underway
  <2>. QED BY <2>2, <2>3
<1>8. Informed'
  <2> SUFFICES ASSUME NEW d \in Conns PROVE Fine(d, call[d], PeopleOf(Me(d)), PeopleOf(Central))'
    BY DEF Informed
  <2>1. PeopleOf(Me(d))' = PeopleOf(Me(d)) /\ PeopleOf(Central)' = PeopleOf(Central)
    BY DEF Me
  <2>2. Fine(d, call'[d], PeopleOf(Me(d)), PeopleOf(Central))
    BY <1>1, <1>2 DEF Informed
  <2>. QED BY <2>1, <2>2 DEF Fine
<1>9. Everyone'
  <2> SUFFICES ASSUME NEW a \in Accounts, NEW s \in Born[a] PROVE Somewhere(a, s)'
    BY <1>2 DEF Everyone
  <2>1. PeopleOf(a)' = PeopleOf(a) /\ PeopleOf(Central)' = PeopleOf(Central)
    OBVIOUS
  <2>2. Somewhere(a, s)
    BY <1>2 DEF Everyone
  <2>3. CASE s \in PeopleOf(a) \/ s \in PeopleOf(Central)
    BY <2>1, <2>3 DEF Somewhere
  <2>4. ASSUME NEW d \in Conns, s \in Hand(call[d]) PROVE Somewhere(a, s)'
    <3>1. CASE d = c
      <4>1. s \in Hand(call'[c]) \/ \E t \in Threads' : \E m : In(thread'[t].inbox, m) /\ m.kind = "inject" /\ s \in m.arg
        BY <1>1, <2>4, <3>1
      <4>. QED BY <4>1 DEF Somewhere
    <3>2. CASE d # c
      BY <1>1, <2>4, <3>2 DEF Somewhere
    <3>. QED BY <3>1, <3>2
  <2>5. ASSUME NEW t \in Threads, NEW m, In(thread[t].inbox, m), m.kind = "inject", s \in m.arg PROVE Somewhere(a, s)'
    BY <2>5 DEF Somewhere
  <2>. QED BY <2>2, <2>3, <2>4, <2>5 DEF Somewhere
<1>. QED BY <1>3, <1>6, <1>7, <1>8, <1>9 DEF Census

\* A call that goes on.
LEMMA MoveCensus ==
  ASSUME Calm, NEW c \in Conns, NEW r \in Call, Turns(c, r), Free(call[c]),
         thread' = thread \/ \E k \in Keys : thread' = Append(thread, Fresh(k)), UNCHANGED file,
         Purposeful(r), Trip(r) => entry' = c, \A d \in Conns : d # c /\ entry = d => entry' = d,
         Clear(r) => Clear(call[c]), Fine(c, r, PeopleOf(Me(c)), PeopleOf(Central)),
         Hand(call[c]) \subseteq Hand(r)
  PROVE  Census'
<1>1. Always /\ Letters
  BY DEF Calm, Census
<1>. QED BY <1>1, MailKept, StepCensus

\* A call that asks.
LEMMA AskCensus ==
  ASSUME Calm, NEW c \in Conns, NEW t \in 1..Len(thread), NEW kind \in Kinds \ {"inject"}, NEW arg \in Nat \cup SUBSET Settlers,
         NEW waits \in WaitingPlaces, Asks(c, t, kind, arg, waits), call[c].at \notin WaitingPlaces, UNCHANGED <<file, entry>>,
         kind = "returnees" => arg = call[c].held, kind = "extract" => arg = call[c].want,
         Purposeful(Asked(c, waits)), Trip(call[c]) \/ ~Trip(Asked(c, waits)),
         Clear(Asked(c, waits)) => Clear(call[c]), Fine(c, Asked(c, waits), PeopleOf(Me(c)), PeopleOf(Central)),
         Hand(call[c]) \subseteq Hand(Asked(c, waits))
  PROVE  Census'
<1>1. Always /\ Letters /\ call[c] \in Call /\ call[c].seq \in Nat
  BY Knows DEF Calm, Census
<1> DEFINE r == Asked(c, waits)
           m == Asking(c, kind, arg)
<1>2. r \in Call /\ r.at = waits /\ r.ans = Waiting /\ r.seq = call[c].seq + 1 /\ r.held = call[c].held /\ r.want = call[c].want
  <2>1. Waiting \in Answers /\ waits \in Places /\ call[c].seq + 1 \in Nat /\ call[c] \in Call
    BY <1>1 DEF Answers, Places
  <2>. QED BY <2>1 DEF Asked, Call
<1>3. m \in Message /\ m.kind = kind /\ m.from = c /\ m.arg = arg /\ m.seq = call[c].seq + 1
  BY <1>1 DEF Asking, Message
<1>4. Turns(c, r) /\ Puts(t, m)
  BY DEF Asks
<1>5. Free(call[c])
  BY DEF Free
<1>6. Fresher(c, r, m)
  BY <1>2, <1>3 DEF Fresher, Awaited
<1>7. Purposeful(r) /\ (Trip(r) => entry' = c) /\ (\A d \in Conns : d # c /\ entry = d => entry' = d)
  BY DEF Calm, Census, Alone
<1>8. Clear(r) => Clear(call[c])
  OBVIOUS
<1>9. Fine(c, r, PeopleOf(Me(c)), PeopleOf(Central)) /\ Hand(call[c]) \subseteq Hand(r)
  OBVIOUS
<1> HIDE DEF r, m
<1>10. \A x : In(thread[t].inbox, x) => May(x, m)
  <2> SUFFICES ASSUME NEW x, In(thread[t].inbox, x) PROVE May(x, m)
    OBVIOUS
  <2>1. Awaited(x, call[x.from])
    BY <1>1 DEF Letters, Threads
  <2>. QED BY <1>3, <2>1 DEF May, Awaited
<1>11. /\ \A k : PeopleOf(k)' = PeopleOf(k)
       /\ \A u \in Threads' : Sorted(thread'[u].inbox)
       /\ \A u \in Threads : \A x : In(thread[u].inbox, x) => u \in Threads' /\ In(thread'[u].inbox, x)
       /\ \A u \in Threads' : \A x : In(thread'[u].inbox, x) => (u \in Threads /\ In(thread[u].inbox, x)) \/ (u = t /\ x = m)
  BY <1>1, <1>3, <1>4, <1>10, MailPut
<1>12. \A u \in Threads' : \A x : In(thread'[u].inbox, x) => (u \in Threads /\ In(thread[u].inbox, x)) \/ Fresher(c, r, x)
  BY <1>6, <1>11
<1>13. \A s \in Hand(call[c]) : s \in Hand(r)
  BY <1>9
<1>. QED BY <1>2, <1>4, <1>5, <1>7, <1>8, <1>9, <1>11, <1>12, <1>13, StepCensus

\* A call that ends has nobody in hand.
LEMMA LeaveCensus ==
  ASSUME Calm, NEW c \in Conns, NEW place \in {"out", "in"}, Leaves(c, place), Free(call[c]),
         Hand(call[c]) = {}, UNCHANGED file
  PROVE  Census'
<1>1. call[c] \in Call
  BY Knows DEF Calm
<1> DEFINE r == Leaving(c, place)
<1>2. r.at = place /\ r.goal = "none" /\ r \in Call
  BY <1>1 DEF Leaving, Outside, Call, Places, Goals, Answers
<1>3. Purposeful(r) /\ ~Trip(r) /\ ~Clear(r) /\ Hand(r) = {}
  BY <1>2 DEF Purposeful, Trip, Clear, Hand
<1>4. Fine(c, r, PeopleOf(Me(c)), PeopleOf(Central))
  BY <1>3, FineIdle
<1>5. \A d \in Conns : d # c /\ entry = d => entry' = d
  BY DEF Leaves
<1>6. Turns(c, r) /\ thread' = thread
  BY DEF Leaves, Moves
<1> HIDE DEF r
<1>. QED BY <1>2, <1>3, <1>4, <1>5, <1>6, MoveCensus

\* Every wait is answered, and every thread hears.
LEMMA NoneDropped ==
  ASSUME Calm, NEW c \in Conns
  PROVE  /\ call[c].at \in WaitingPlaces => call[c].ans # Dropped
         /\ case.prompt /\ \A k : ~GaveUpOn(thread, k)
         /\ \A k, t : Runs(thread, t, k) => Hears(t)
         /\ call[c].at \notin {"forget", "again", "stale"}
<1>1. \A t \in Threads : thread[t].st \in {"boot", "up"} /\ Hears(t)
  BY OneHome DEF Calm
<1>2. \A k : ~GaveUpOn(thread, k)
  BY <1>1 DEF GaveUpOn, Over, Threads
<1>3. ASSUME call[c].at \in WaitingPlaces PROVE call[c].ans # Dropped
  <2>1. Waited(call[c]) \in Threads
    BY <1>3, Knows DEF Calm, Points, Runs, Waited, WaitingPlaces, OwnPlaces, CenPlaces, Threads
  <2>. QED BY <1>1, <1>3, <2>1 DEF Calm, Told, GivesUpRightly, Over
<1>4. call[c].at \notin {"forget", "again", "stale"}
  BY DEF Calm, Census, Alone, Purposeful, LoginPlaces, CentralPlaces, HomePlaces
<1>. QED BY <1>1, <1>2, <1>3, <1>4 DEF Calm, Undisturbed, Runs, Threads

\* What a call in a place knows, place by place.
LEMMA CallIs ==
  ASSUME Calm, NEW c \in Conns
  PROVE  /\ call[c] \in Call /\ Purposeful(call[c]) /\ (Trip(call[c]) => entry = c)
         /\ Fine(c, call[c], PeopleOf(Me(c)), PeopleOf(Central))
         /\ call[c].held \subseteq Born[Me(c)] /\ Points(thread, c, call[c]) /\ Carries(c, call[c])
BY Knows DEF Calm, Census, Alone, Informed, Carries

\* Taking the entry lock makes it the only trip.
LEMMA LockCensus == ASSUME Calm, Always', NEW c \in Conns, Lock(c) PROVE Census'
<1> DEFINE r == Going(c, IF call[c].goal = "central" THEN "cen" ELSE "own")
<1>1. call[c].at = "lock" /\ entry = Nobody /\ entry' = c /\ UNCHANGED file /\ Turns(c, r) /\ thread' = thread
  BY LockIs DEF Calm, Always, Moves
<1>2. call[c] \in Call /\ Purposeful(call[c])
  BY CallIs
<1>3. r \in Call
  BY <1>1, TurnedCall DEF Calm
<1>4. r.goal = call[c].goal /\ r.at = IF call[c].goal = "central" THEN "cen" ELSE "own"
  BY <1>2 DEF Going, Call
<1>5. Purposeful(r) /\ ~Clear(r) /\ Hand(r) = {} /\ Hand(call[c]) = {} /\ Free(call[c])
  BY <1>1, <1>2, <1>4 DEF Purposeful, Clear, Hand, Free, WaitingPlaces, LoginPlaces, CentralPlaces, HomePlaces
<1>6. Fine(c, r, PeopleOf(Me(c)), PeopleOf(Central))
  BY <1>5, FineIdle
<1>7. \A d \in Conns : d # c /\ entry = d => entry' = d
  BY <1>1, ManagerAssumption DEF Nobody
<1> HIDE DEF r
<1>. QED BY <1>1, <1>3, <1>5, <1>6, <1>7, MoveCensus

\* The personal world is found or started; who has nobody in hand may be refused.
LEMMA OwnCensus == ASSUME Calm, Always', NEW c \in Conns, Own(c) PROVE Census'
<1>1. call[c].at = "own" /\ UNCHANGED file
  BY OwnIs DEF Calm, Always
<1>2. call[c] \in Call /\ Purposeful(call[c]) /\ (Trip(call[c]) => entry = c)
      /\ Fine(c, call[c], PeopleOf(Me(c)), PeopleOf(Central))
  BY CallIs
<1>3. Hand(call[c]) = {} /\ Free(call[c]) /\ call[c].goal \in {"login", "central", "home"}
  BY <1>1, <1>2 DEF Hand, Free, WaitingPlaces, Purposeful, LoginPlaces, CentralPlaces, HomePlaces
<1> DEFINE R(v) == [call[c] EXCEPT !.at = CASE call[c].goal = "login" -> "join" [] call[c].goal = "central" -> "extract"
                                            [] call[c].goal = "home" -> "find", !.own = v]
<1>4. ASSUME NEW v, Turns(c, R(v)), thread' = thread \/ \E k \in Keys : thread' = Append(thread, Fresh(k)), UNCHANGED entry PROVE Census'
  <2>1. R(v) \in Call
    BY <1>4, TurnedCall DEF Calm
  <2>2. /\ R(v).goal = call[c].goal /\ R(v).want = call[c].want
        /\ (call[c].goal = "login" => R(v).at = "join") /\ (call[c].goal = "central" => R(v).at = "extract")
        /\ (call[c].goal = "home" => R(v).at = "find")
    BY <1>2 DEF Call
  <2> HIDE DEF R
  <2>3. Purposeful(R(v)) /\ (Trip(R(v)) => Trip(call[c])) /\ (Clear(R(v)) => Clear(call[c])) /\ Hand(R(v)) = {}
    BY <1>1, <1>3, <2>2 DEF Purposeful, Trip, Clear, Hand, LoginPlaces, CentralPlaces, HomePlaces
  <2>4. Fine(c, R(v), PeopleOf(Me(c)), PeopleOf(Central))
    BY <1>1, <1>2, <1>3, <2>2, <2>3 DEF Fine, Clear
  <2>5. Trip(R(v)) => entry' = c
    BY <1>2, <1>4, <2>3
  <2>6. \A d \in Conns : d # c /\ entry = d => entry' = d
    BY <1>4
  <2>. QED BY <1>1, <1>3, <1>4, <2>1, <2>3, <2>4, <2>5, <2>6, MoveCensus
<1>5. \/ Leaves(c, "out")
      \/ (\E v : Turns(c, R(v))) /\ (thread' = thread \/ \E k \in Keys : thread' = Append(thread, Fresh(k))) /\ UNCHANGED entry
  BY OwnIs DEF Calm, Always, Finds, Starts, Moves
<1> HIDE DEF R
<1>. QED BY <1>1, <1>3, <1>4, <1>5, LeaveCensus

\* Questions: a join, ...
LEMMA JoinOwnCensus == ASSUME Calm, Always', NEW c \in Conns, JoinOwn(c) PROVE Census'
<1>1. /\ call[c].at = "join" /\ UNCHANGED file
      /\ (Asks(c, call[c].own, "join", {}, "joining") /\ UNCHANGED entry) \/ ~Hears(call[c].own)
  BY JoinOwnIs DEF Calm, Always
<1>2. call[c] \in Call /\ Purposeful(call[c]) /\ (Trip(call[c]) => entry = c) /\ Points(thread, c, call[c])
      /\ Fine(c, call[c], PeopleOf(Me(c)), PeopleOf(Central)) /\ call[c].held \subseteq Born[Me(c)]
  BY CallIs
<1>3. call[c].own \in 1..Len(thread) /\ Hears(call[c].own)
  BY <1>1, <1>2, NoneDropped DEF Points, OwnPlaces, CenPlaces, Runs
<1> DEFINE r == Asked(c, "joining")
<1>4. r.at = "joining" /\ r.ans = Waiting /\ r.goal = call[c].goal /\ r.held = call[c].held /\ r.want = call[c].want
  BY <1>2 DEF Asked, Call
<1>5. Waiting.is # "value"
  BY DEF Waiting
<1>6. Purposeful(r) /\ (Trip(r) => Trip(call[c])) /\ (Clear(r) => Clear(call[c])) /\ Hand(r) = Hand(call[c])
  BY <1>1, <1>2, <1>4, <1>5 DEF Purposeful, Trip, Clear, Hand, LoginPlaces, CentralPlaces, HomePlaces
<1>7. Fine(c, r, PeopleOf(Me(c)), PeopleOf(Central))
  BY <1>1, <1>2, <1>4, <1>5, <1>6 DEF Fine, Clear
<1>8. /\ "join" \in Kinds \ {"inject"} /\ {} \in Nat \cup SUBSET Settlers /\ "joining" \in WaitingPlaces
      /\ call[c].at \notin WaitingPlaces
  BY <1>1, <1>2 DEF Kinds, WaitingPlaces, Call
<1> HIDE DEF r
<1>. QED BY <1>1, <1>3, <1>6, <1>7, <1>8, AskCensus DEF r


\* ... how many are in the central world, ...
LEMMA CountCensus == ASSUME Calm, Always', NEW c \in Conns, Count(c) PROVE Census'
<1>1. /\ call[c].at = "count" /\ UNCHANGED file
      /\ (Asks(c, call[c].cen, "count", {}, "counting") /\ UNCHANGED entry) \/ ~Hears(call[c].cen)
  BY CountIs DEF Calm, Always
<1>2. call[c] \in Call /\ Purposeful(call[c]) /\ (Trip(call[c]) => entry = c) /\ Points(thread, c, call[c])
      /\ Fine(c, call[c], PeopleOf(Me(c)), PeopleOf(Central)) /\ call[c].held \subseteq Born[Me(c)]
  BY CallIs
<1>3. call[c].cen \in 1..Len(thread) /\ Hears(call[c].cen)
  BY <1>1, <1>2, NoneDropped DEF Points, OwnPlaces, CenPlaces, Runs
<1> DEFINE r == Asked(c, "counting")
<1>4. r.at = "counting" /\ r.ans = Waiting /\ r.goal = call[c].goal /\ r.held = call[c].held /\ r.want = call[c].want
  BY <1>2 DEF Asked, Call
<1>5. Waiting.is # "value"
  BY DEF Waiting
<1>6. Purposeful(r) /\ (Trip(r) => Trip(call[c])) /\ (Clear(r) => Clear(call[c])) /\ Hand(r) = Hand(call[c])
  BY <1>1, <1>2, <1>4, <1>5 DEF Purposeful, Trip, Clear, Hand, LoginPlaces, CentralPlaces, HomePlaces
<1>7. Fine(c, r, PeopleOf(Me(c)), PeopleOf(Central))
  BY <1>1, <1>2, <1>4, <1>5, <1>6 DEF Fine, Clear
<1>8. /\ "count" \in Kinds \ {"inject"} /\ {} \in Nat \cup SUBSET Settlers /\ "counting" \in WaitingPlaces
      /\ call[c].at \notin WaitingPlaces
  BY <1>1, <1>2 DEF Kinds, WaitingPlaces, Call
<1> HIDE DEF r
<1>. QED BY <1>1, <1>3, <1>6, <1>7, <1>8, AskCensus DEF r


\* ... for migrants, ...
LEMMA ExtractCensus == ASSUME Calm, Always', NEW c \in Conns, Extract(c) PROVE Census'
<1>1. /\ call[c].at = "extract" /\ UNCHANGED file
      /\ (Asks(c, call[c].own, "extract", call[c].want, "extracting") /\ UNCHANGED entry) \/ ~Hears(call[c].own)
  BY ExtractIs DEF Calm, Always
<1>2. call[c] \in Call /\ Purposeful(call[c]) /\ (Trip(call[c]) => entry = c) /\ Points(thread, c, call[c])
      /\ Fine(c, call[c], PeopleOf(Me(c)), PeopleOf(Central)) /\ call[c].held \subseteq Born[Me(c)]
  BY CallIs
<1>3. call[c].own \in 1..Len(thread) /\ Hears(call[c].own)
  BY <1>1, <1>2, NoneDropped DEF Points, OwnPlaces, CenPlaces, Runs
<1> DEFINE r == Asked(c, "extracting")
<1>4. r.at = "extracting" /\ r.ans = Waiting /\ r.goal = call[c].goal /\ r.held = call[c].held /\ r.want = call[c].want
  BY <1>2 DEF Asked, Call
<1>5. Waiting.is # "value"
  BY DEF Waiting
<1>6. Purposeful(r) /\ (Trip(r) => Trip(call[c])) /\ (Clear(r) => Clear(call[c])) /\ Hand(r) = Hand(call[c])
  BY <1>1, <1>2, <1>4, <1>5 DEF Purposeful, Trip, Clear, Hand, LoginPlaces, CentralPlaces, HomePlaces
<1>7. Fine(c, r, PeopleOf(Me(c)), PeopleOf(Central))
  BY <1>1, <1>2, <1>4, <1>5, <1>6 DEF Fine, Clear
<1>8. /\ "extract" \in Kinds \ {"inject"} /\ call[c].want \in Nat \cup SUBSET Settlers /\ "extracting" \in WaitingPlaces
      /\ call[c].at \notin WaitingPlaces
  BY <1>1, <1>2 DEF Kinds, WaitingPlaces, Call
<1> HIDE DEF r
<1>. QED BY <1>1, <1>3, <1>6, <1>7, <1>8, AskCensus DEF r


\* ... to be let in, ...
LEMMA EnterCensus == ASSUME Calm, Always', NEW c \in Conns, Enter(c) PROVE Census'
<1>1. /\ call[c].at = "enter" /\ UNCHANGED file
      /\ (Asks(c, call[c].cen, "join", {}, "entering") /\ UNCHANGED entry) \/ ~Hears(call[c].cen)
  BY EnterIs DEF Calm, Always
<1>2. call[c] \in Call /\ Purposeful(call[c]) /\ (Trip(call[c]) => entry = c) /\ Points(thread, c, call[c])
      /\ Fine(c, call[c], PeopleOf(Me(c)), PeopleOf(Central)) /\ call[c].held \subseteq Born[Me(c)]
  BY CallIs
<1>3. call[c].cen \in 1..Len(thread) /\ Hears(call[c].cen)
  BY <1>1, <1>2, NoneDropped DEF Points, OwnPlaces, CenPlaces, Runs
<1> DEFINE r == Asked(c, "entering")
<1>4. r.at = "entering" /\ r.ans = Waiting /\ r.goal = call[c].goal /\ r.held = call[c].held /\ r.want = call[c].want
  BY <1>2 DEF Asked, Call
<1>5. Waiting.is # "value"
  BY DEF Waiting
<1>6. Purposeful(r) /\ (Trip(r) => Trip(call[c])) /\ (Clear(r) => Clear(call[c])) /\ Hand(r) = Hand(call[c])
  BY <1>1, <1>2, <1>4, <1>5 DEF Purposeful, Trip, Clear, Hand, LoginPlaces, CentralPlaces, HomePlaces
<1>7. Fine(c, r, PeopleOf(Me(c)), PeopleOf(Central))
  BY <1>1, <1>2, <1>4, <1>5, <1>6 DEF Fine, Clear
<1>8. /\ "join" \in Kinds \ {"inject"} /\ {} \in Nat \cup SUBSET Settlers /\ "entering" \in WaitingPlaces
      /\ call[c].at \notin WaitingPlaces
  BY <1>1, <1>2 DEF Kinds, WaitingPlaces, Call
<1> HIDE DEF r
<1>. QED BY <1>1, <1>3, <1>6, <1>7, <1>8, AskCensus DEF r


\* ... for the settlers there, ...
LEMMA FetchCensus == ASSUME Calm, Always', NEW c \in Conns, Fetch(c) PROVE Census'
<1>1. /\ call[c].at = "fetch" /\ UNCHANGED file
      /\ (Asks(c, call[c].cen, "settlers", {}, "fetching") /\ UNCHANGED entry) \/ ~Hears(call[c].cen)
  BY FetchIs DEF Calm, Always
<1>2. call[c] \in Call /\ Purposeful(call[c]) /\ (Trip(call[c]) => entry = c) /\ Points(thread, c, call[c])
      /\ Fine(c, call[c], PeopleOf(Me(c)), PeopleOf(Central)) /\ call[c].held \subseteq Born[Me(c)]
  BY CallIs
<1>3. call[c].cen \in 1..Len(thread) /\ Hears(call[c].cen)
  BY <1>1, <1>2, NoneDropped DEF Points, OwnPlaces, CenPlaces, Runs
<1> DEFINE r == Asked(c, "fetching")
<1>4. r.at = "fetching" /\ r.ans = Waiting /\ r.goal = call[c].goal /\ r.held = call[c].held /\ r.want = call[c].want
  BY <1>2 DEF Asked, Call
<1>5. Waiting.is # "value"
  BY DEF Waiting
<1>6. Purposeful(r) /\ (Trip(r) => Trip(call[c])) /\ (Clear(r) => Clear(call[c])) /\ Hand(r) = Hand(call[c])
  BY <1>1, <1>2, <1>4, <1>5 DEF Purposeful, Trip, Clear, Hand, LoginPlaces, CentralPlaces, HomePlaces
<1>7. Fine(c, r, PeopleOf(Me(c)), PeopleOf(Central))
  BY <1>1, <1>2, <1>4, <1>5, <1>6 DEF Fine, Clear
<1>8. /\ "settlers" \in Kinds \ {"inject"} /\ {} \in Nat \cup SUBSET Settlers /\ "fetching" \in WaitingPlaces
      /\ call[c].at \notin WaitingPlaces
  BY <1>1, <1>2 DEF Kinds, WaitingPlaces, Call
<1> HIDE DEF r
<1>. QED BY <1>1, <1>3, <1>6, <1>7, <1>8, AskCensus DEF r


\* ... and to take those in hand, who stay in hand.
LEMMA SettleCensus == ASSUME Calm, Always', NEW c \in Conns, Settle(c) PROVE Census'
<1>1. /\ call[c].at = "settle" /\ UNCHANGED file
      /\ (Asks(c, call[c].own, "returnees", call[c].held, "settling") /\ UNCHANGED entry) \/ ~Hears(call[c].own)
  BY SettleIs DEF Calm, Always
<1>2. call[c] \in Call /\ Purposeful(call[c]) /\ (Trip(call[c]) => entry = c) /\ Points(thread, c, call[c])
      /\ Fine(c, call[c], PeopleOf(Me(c)), PeopleOf(Central)) /\ call[c].held \subseteq Born[Me(c)]
  BY CallIs
<1>3. call[c].own \in 1..Len(thread) /\ Hears(call[c].own)
  BY <1>1, <1>2, NoneDropped DEF Points, OwnPlaces, CenPlaces, Runs
<1> DEFINE r == Asked(c, "settling")
<1>4. r.at = "settling" /\ r.ans = Waiting /\ r.goal = call[c].goal /\ r.held = call[c].held /\ r.want = call[c].want
  BY <1>2 DEF Asked, Call
<1>5. Waiting.is # "value"
  BY DEF Waiting
<1>6. Purposeful(r) /\ (Trip(r) => Trip(call[c])) /\ (Clear(r) => Clear(call[c])) /\ Hand(r) = Hand(call[c])
  BY <1>1, <1>2, <1>4, <1>5 DEF Purposeful, Trip, Clear, Hand, LoginPlaces, CentralPlaces, HomePlaces
<1>7. Fine(c, r, PeopleOf(Me(c)), PeopleOf(Central))
  BY <1>1, <1>2, <1>4, <1>5, <1>6 DEF Fine, Clear
<1>8. /\ "returnees" \in Kinds \ {"inject"} /\ call[c].held \in Nat \cup SUBSET Settlers /\ "settling" \in WaitingPlaces
      /\ call[c].at \notin WaitingPlaces
  BY <1>1, <1>2 DEF Kinds, WaitingPlaces, Call
<1> HIDE DEF r
<1>. QED BY <1>1, <1>3, <1>6, <1>7, <1>8, AskCensus DEF r

\* What is known of the kinds of answer.
LEMMA AnswerKinds == Waiting.is # "value" /\ Dropped.is # "value" /\ Ungraduated.is # "value" /\ Ungraduated # Waiting
BY DEF Waiting, Dropped, Ungraduated

\* A call goes on where nothing is known and nobody in hand.
LEMMA IdleCensus ==
  ASSUME Calm, NEW c \in Conns, NEW r \in Call, Turns(c, r), Free(call[c]),
         thread' = thread \/ \E k \in Keys : thread' = Append(thread, Fresh(k)), UNCHANGED <<file, entry>>,
         Purposeful(r), Trip(r) => Trip(call[c]), ~Clear(r), Hand(r) = {}, Hand(call[c]) = {}
  PROVE  Census'
<1>1. Fine(c, r, PeopleOf(Me(c)), PeopleOf(Central))
  BY FineIdle
<1>2. Trip(r) => entry' = c
  BY CallIs
<1>. QED BY <1>1, <1>2, MoveCensus

\* Answers that move nobody: a join, ...
LEMMA JoiningCensus == ASSUME Calm, Always', NEW c \in Conns, Joining(c) PROVE Census'
<1>1. call[c].at = "joining" /\ UNCHANGED file /\ call[c].ans.is = "value" /\ Leaves(c, "in")
  BY JoiningIs, NoneDropped DEF Calm, Always, WaitingPlaces
<1>2. Hand(call[c]) = {} /\ Free(call[c])
  BY <1>1, AnswerKinds DEF Hand, Free
<1>. QED BY <1>1, <1>2, LeaveCensus

\* ... and the central one.
LEMMA EnteringCensus == ASSUME Calm, Always', NEW c \in Conns, Entering(c) PROVE Census'
<1>1. call[c].at = "entering" /\ UNCHANGED file /\ call[c].ans.is = "value" /\ Leaves(c, "in")
  BY EnteringIs, NoneDropped DEF Calm, Always, WaitingPlaces
<1>2. Hand(call[c]) = {} /\ Free(call[c])
  BY <1>1, AnswerKinds DEF Hand, Free
<1>. QED BY <1>1, <1>2, LeaveCensus

\* The count is what it was when the answer was given, and the room asked for is what it leaves.
LEMMA CountingCensus == ASSUME Calm, Always', NEW c \in Conns, Counting(c) PROVE Census'
<1> DEFINE r == [call[c] EXCEPT !.at = "recheck", !.want = Want(call[c].ans.value)]
<1>1. /\ call[c].at = "counting" /\ UNCHANGED <<file, entry>> /\ call[c].ans.is = "value" /\ Turns(c, r) /\ thread' = thread
  BY CountingIs, NoneDropped DEF Calm, Always, WaitingPlaces, Moves
<1>2. call[c] \in Call /\ Purposeful(call[c]) /\ (Trip(call[c]) => entry = c) /\ Points(thread, c, call[c])
      /\ Fine(c, call[c], PeopleOf(Me(c)), PeopleOf(Central)) /\ Carries(c, call[c])
  BY CallIs
<1>3. r \in Call
  BY <1>1, TurnedCall DEF Calm
<1>4. r.at = "recheck" /\ r.goal = call[c].goal /\ r.want = Want(call[c].ans.value) /\ r.ans = call[c].ans
  BY <1>2 DEF Call
<1>5. Hand(call[c]) = {} /\ Free(call[c]) /\ Hand(r) = {} /\ Clear(call[c]) /\ Clear(r)
  BY <1>1, <1>4, AnswerKinds DEF Hand, Free, Clear
<1>6. Purposeful(r) /\ (Trip(r) => Trip(call[c]))
  BY <1>1, <1>2, <1>4 DEF Purposeful, Trip, LoginPlaces, CentralPlaces, HomePlaces
<1> DEFINE n == Cardinality(Owned(Me(c), PeopleOf(Central)))
<1>7. n + 0 <= GroupCap /\ call[c].ans.value = n
  BY <1>1, <1>2, <1>5, FS_EmptySet DEF Fine
<1>8. n \in Nat /\ GroupCap \in Nat
  BY <1>1, <1>2, <1>7, ManagerAssumption DEF Carries
<1> HIDE DEF r, n
<1>9. r.want = Want(n) /\ n + Want(n) <= GroupCap
  BY <1>4, <1>7, <1>8 DEF Want
<1>10. n + r.want <= GroupCap
  BY <1>9
<1>11. Fine(c, r, PeopleOf(Me(c)), PeopleOf(Central))
  BY <1>2, <1>4, <1>5, <1>10 DEF Fine, n
<1>12. Trip(r) => entry' = c
  BY <1>1, <1>2, <1>6
<1>. QED BY <1>1, <1>3, <1>5, <1>6, <1>11, <1>12, MoveCensus

\* The migrants in the answer come to hand.
LEMMA ExtractingCensus == ASSUME Calm, Always', NEW c \in Conns, Extracting(c) PROVE Census'
<1> DEFINE r == [call[c] EXCEPT !.at = IF call[c].ans.value = {} THEN "enter" ELSE "inject", !.held = call[c].ans.value]
           q == Going(c, "enter")
<1>1. /\ call[c].at = "extracting" /\ UNCHANGED file
      /\ \/ call[c].ans = Ungraduated /\ Leaves(c, "out")
         \/ call[c].ans = Ungraduated /\ UNCHANGED entry /\ Turns(c, q) /\ thread' = thread
         \/ call[c].ans.is = "value" /\ UNCHANGED entry /\ Turns(c, r) /\ thread' = thread
  BY ExtractingIs, NoneDropped DEF Calm, Always, WaitingPlaces, Moves, Goes
<1>2. call[c] \in Call /\ Purposeful(call[c]) /\ (Trip(call[c]) => entry = c) /\ Points(thread, c, call[c])
      /\ Fine(c, call[c], PeopleOf(Me(c)), PeopleOf(Central)) /\ Carries(c, call[c])
  BY CallIs
<1>3. Free(call[c]) /\ Clear(call[c])
  BY <1>1, AnswerKinds DEF Free, Clear
<1>4. CASE call[c].ans = Ungraduated /\ Leaves(c, "out")
  BY <1>1, <1>3, <1>4, LeaveCensus, AnswerKinds DEF Hand
<1>5. CASE call[c].ans = Ungraduated /\ UNCHANGED entry /\ Turns(c, q) /\ thread' = thread
  <2>1. q \in Call /\ q.at = "enter" /\ q.goal = call[c].goal
    BY <1>2, <1>5, TurnedCall DEF Calm, Going, Call
  <2>2. Purposeful(q) /\ (Trip(q) => Trip(call[c])) /\ Hand(q) = {} /\ Hand(call[c]) = {} /\ ~Clear(q)
    BY <1>1, <1>2, <1>5, <2>1, AnswerKinds DEF Purposeful, Trip, LoginPlaces, CentralPlaces, HomePlaces, Clear, Hand
  <2> HIDE DEF q
  <2>. QED BY <1>1, <1>3, <1>5, <2>1, <2>2, IdleCensus
<1>6. CASE call[c].ans.is = "value" /\ UNCHANGED entry /\ Turns(c, r) /\ thread' = thread
  <2>1. r \in Call
    BY <1>6, TurnedCall DEF Calm
  <2>2. r.at = (IF call[c].ans.value = {} THEN "enter" ELSE "inject") /\ r.goal = call[c].goal /\ r.held = call[c].ans.value
    BY <1>2 DEF Call
  <2> HIDE DEF r
  <2>3. Purposeful(r) /\ (Trip(r) => Trip(call[c])) /\ Hand(r) = Hand(call[c])
    BY <1>1, <1>2, <1>6, <2>2 DEF Purposeful, Trip, LoginPlaces, CentralPlaces, HomePlaces, Hand
  <2>4. ~Clear(r) => Hand(r) = {}
    BY <2>2 DEF Clear, Hand
  <2>5. Fine(c, r, PeopleOf(Me(c)), PeopleOf(Central))
    BY <1>2, <1>3, <2>2, <2>3, <2>4 DEF Fine, Clear
  <2>6. Trip(r) => entry' = c
    BY <1>2, <1>6, <2>3
  <2>. QED BY <1>1, <1>3, <1>6, <2>1, <2>3, <2>5, <2>6, MoveCensus
<1>. QED BY <1>1, <1>4, <1>5, <1>6

\* So do the settlers fetched.
LEMMA FetchingCensus == ASSUME Calm, Always', NEW c \in Conns, Fetching(c) PROVE Census'
<1> DEFINE r == [call[c] EXCEPT !.at = IF call[c].ans.value = {} THEN "join" ELSE "settle", !.held = call[c].ans.value]
<1>1. /\ call[c].at = "fetching" /\ UNCHANGED <<file, entry>> /\ call[c].ans.is = "value" /\ Turns(c, r) /\ thread' = thread
  BY FetchingIs, NoneDropped DEF Calm, Always, WaitingPlaces, Moves
<1>2. call[c] \in Call /\ Purposeful(call[c]) /\ (Trip(call[c]) => entry = c) /\ Points(thread, c, call[c])
      /\ Fine(c, call[c], PeopleOf(Me(c)), PeopleOf(Central)) /\ Carries(c, call[c])
  BY CallIs
<1>3. Free(call[c]) /\ Clear(call[c])
  BY <1>1, AnswerKinds DEF Free, Clear
<1>4. r \in Call
  BY <1>1, TurnedCall DEF Calm
<1>5. r.at = (IF call[c].ans.value = {} THEN "join" ELSE "settle") /\ r.goal = call[c].goal /\ r.held = call[c].ans.value
  BY <1>2 DEF Call
<1> HIDE DEF r
<1>6. Purposeful(r) /\ (Trip(r) => Trip(call[c])) /\ Hand(r) = Hand(call[c])
  BY <1>1, <1>2, <1>5 DEF Purposeful, Trip, LoginPlaces, CentralPlaces, HomePlaces, Hand
<1>7. ~Clear(r) => Hand(r) = {}
  BY <1>5 DEF Clear, Hand
<1>8. Fine(c, r, PeopleOf(Me(c)), PeopleOf(Central))
  BY <1>1, <1>2, <1>3, <1>5, <1>6, <1>7 DEF Fine, Clear
<1>9. Trip(r) => entry' = c
  BY <1>1, <1>2, <1>6
<1>. QED BY <1>1, <1>3, <1>4, <1>6, <1>8, <1>9, MoveCensus

\* Those who found room are struck from the list, the rest stay in hand.
LEMMA SettlingCensus == ASSUME Calm, Always', NEW c \in Conns, Settling(c) PROVE Census'
<1> DEFINE rest == Leftover(call[c].held, call[c].ans.value)
           r == [call[c] EXCEPT !.at = IF rest = {} THEN "join" ELSE "putback", !.held = rest]
<1>1. /\ call[c].at = "settling" /\ UNCHANGED <<file, entry>> /\ call[c].ans.is = "value" /\ Turns(c, r) /\ thread' = thread
  BY SettlingIs, NoneDropped DEF Calm, Always, WaitingPlaces, Moves
<1>2. call[c] \in Call /\ Purposeful(call[c]) /\ (Trip(call[c]) => entry = c) /\ Points(thread, c, call[c])
      /\ Fine(c, call[c], PeopleOf(Me(c)), PeopleOf(Central)) /\ Carries(c, call[c])
  BY CallIs
<1>3. Free(call[c]) /\ Clear(call[c])
  BY <1>1, AnswerKinds DEF Free, Clear
<1>4. r \in Call
  BY <1>1, TurnedCall DEF Calm
<1>5. r.at = (IF rest = {} THEN "join" ELSE "putback") /\ r.goal = call[c].goal /\ r.held = rest
  BY <1>2 DEF Call
<1>6. Hand(call[c]) = rest
  BY <1>1 DEF Hand
<1> HIDE DEF r, rest
<1>7. Purposeful(r) /\ (Trip(r) => Trip(call[c])) /\ Hand(r) = rest
  BY <1>1, <1>2, <1>5 DEF Purposeful, Trip, LoginPlaces, CentralPlaces, HomePlaces, Hand
<1>8. ~Clear(r) => Hand(r) = {}
  BY <1>5 DEF Clear, Hand
<1>9. Fine(c, r, PeopleOf(Me(c)), PeopleOf(Central))
  BY <1>1, <1>2, <1>3, <1>5, <1>6, <1>7, <1>8 DEF Fine, Clear
<1>10. Trip(r) => entry' = c
  BY <1>1, <1>2, <1>7
<1>. QED BY <1>1, <1>3, <1>4, <1>6, <1>7, <1>9, <1>10, MoveCensus

\* The central world is looked for, ...
LEMMA FindCensus == ASSUME Calm, Always', NEW c \in Conns, Find(c) PROVE Census'
<1> DEFINE r == [call[c] EXCEPT !.at = "fetch", !.cen = worlds[Central]]
           q == Going(c, "join")
<1>1. /\ call[c].at = "find" /\ UNCHANGED <<file, entry>> /\ thread' = thread /\ (Turns(c, r) \/ Turns(c, q))
  BY FindIs DEF Calm, Always, Moves, Goes
<1>2. call[c] \in Call /\ Purposeful(call[c]) /\ (Trip(call[c]) => entry = c) /\ Points(thread, c, call[c])
      /\ Fine(c, call[c], PeopleOf(Me(c)), PeopleOf(Central)) /\ Carries(c, call[c])
  BY CallIs
<1>3. Free(call[c]) /\ Hand(call[c]) = {}
  BY <1>1 DEF Free, WaitingPlaces, Hand
<1>4. r.at = "fetch" /\ r.goal = call[c].goal /\ q.at = "join" /\ q.goal = call[c].goal
  BY <1>2 DEF Call, Going
<1>5. (Turns(c, r) => r \in Call) /\ (Turns(c, q) => q \in Call)
  BY TurnedCall DEF Calm
<1> HIDE DEF r, q
<1>6. /\ Purposeful(r) /\ (Trip(r) => Trip(call[c])) /\ ~Clear(r) /\ Hand(r) = {}
      /\ Purposeful(q) /\ (Trip(q) => Trip(call[c])) /\ ~Clear(q) /\ Hand(q) = {}
  BY <1>1, <1>2, <1>4 DEF Purposeful, Trip, LoginPlaces, CentralPlaces, HomePlaces, Hand, Clear
<1>. QED BY <1>1, <1>3, <1>5, <1>6, IdleCensus

\* ... found or started, ...
LEMMA CenCensus == ASSUME Calm, Always', NEW c \in Conns, Cen(c) PROVE Census'
<1> DEFINE R(v) == [call[c] EXCEPT !.at = "count", !.cen = v]
<1>1. /\ call[c].at = "cen" /\ UNCHANGED <<file, entry>> /\ \E v : Turns(c, R(v))
      /\ (thread' = thread \/ \E k \in Keys : thread' = Append(thread, Fresh(k)))
  BY CenIs DEF Calm, Always, Moves, Finds, Starts
<1>2. call[c] \in Call /\ Purposeful(call[c]) /\ (Trip(call[c]) => entry = c) /\ Points(thread, c, call[c])
      /\ Fine(c, call[c], PeopleOf(Me(c)), PeopleOf(Central)) /\ Carries(c, call[c])
  BY CallIs
<1>3. Free(call[c]) /\ Hand(call[c]) = {}
  BY <1>1 DEF Free, WaitingPlaces, Hand
<1>4. PICK v : Turns(c, R(v))
  BY <1>1
<1>5. R(v).at = "count" /\ R(v).goal = call[c].goal /\ R(v) \in Call
  BY <1>2, <1>4, TurnedCall DEF Calm, Call
<1> HIDE DEF R
<1>6. Purposeful(R(v)) /\ (Trip(R(v)) => Trip(call[c])) /\ ~Clear(R(v)) /\ Hand(R(v)) = {}
  BY <1>1, <1>2, <1>5 DEF Purposeful, Trip, LoginPlaces, CentralPlaces, HomePlaces, Hand, Clear
<1>. QED BY <1>1, <1>3, <1>4, <1>5, <1>6, IdleCensus

\* ... and once more, with the count in.
LEMMA RecheckCensus == ASSUME Calm, Always', NEW c \in Conns, Recheck(c) PROVE Census'
<1> DEFINE R(v) == [call[c] EXCEPT !.at = IF call[c].want = 0 THEN "enter" ELSE "own", !.cen = v]
<1>1. /\ call[c].at = "recheck" /\ UNCHANGED <<file, entry>> /\ \E v : Turns(c, R(v))
      /\ (thread' = thread \/ \E k \in Keys : thread' = Append(thread, Fresh(k)))
  BY RecheckIs DEF Calm, Always, Moves, Finds, Starts
<1>2. call[c] \in Call /\ Purposeful(call[c]) /\ (Trip(call[c]) => entry = c) /\ Points(thread, c, call[c])
      /\ Fine(c, call[c], PeopleOf(Me(c)), PeopleOf(Central)) /\ Carries(c, call[c])
  BY CallIs
<1>3. Free(call[c]) /\ Hand(call[c]) = {} /\ Clear(call[c])
  BY <1>1 DEF Free, WaitingPlaces, Hand, Clear
<1>4. PICK v : Turns(c, R(v))
  BY <1>1
<1>5. /\ R(v).at = (IF call[c].want = 0 THEN "enter" ELSE "own") /\ R(v).goal = call[c].goal /\ R(v) \in Call
      /\ R(v).want = call[c].want
  BY <1>2, <1>4, TurnedCall DEF Calm, Call
<1> HIDE DEF R
<1>6. Purposeful(R(v)) /\ (Trip(R(v)) => Trip(call[c])) /\ Hand(R(v)) = {} /\ call[c].goal = "central"
  BY <1>1, <1>2, <1>5 DEF Purposeful, Trip, LoginPlaces, CentralPlaces, HomePlaces, Hand
<1>7. Fine(c, R(v), PeopleOf(Me(c)), PeopleOf(Central))
  BY <1>1, <1>2, <1>3, <1>5, <1>6 DEF Fine
<1>8. Trip(R(v)) => entry' = c
  BY <1>1, <1>2, <1>6
<1>. QED BY <1>1, <1>3, <1>4, <1>5, <1>6, <1>7, <1>8, MoveCensus

\* A call that sends settlers on their way.
LEMMA TellCensus ==
  ASSUME Calm, NEW c \in Conns, NEW r \in Call, Turns(c, r), NEW t \in 1..Len(thread), Puts(t, Telling(c, call[c].held)),
         UNCHANGED <<file, entry>>, call[c].at \in {"inject", "putback"},
         r.at \in {"enter", "join"}, Purposeful(r), r.goal = call[c].goal
  PROVE  Census'
<1>1. Always /\ Letters /\ Alone /\ Clear(call[c]) /\ Hand(call[c]) = call[c].held /\ Free(call[c])
  BY DEF Calm, Census, Clear, Hand, Free, WaitingPlaces
<1>2. call[c] \in Call /\ Purposeful(call[c]) /\ (Trip(call[c]) => entry = c)
      /\ Fine(c, call[c], PeopleOf(Me(c)), PeopleOf(Central)) /\ Carries(c, call[c])
  BY CallIs
<1>3. Trip(call[c]) /\ entry = c
  BY <1>1, <1>2, ClearTrips
<1>4. \A d \in Conns : Trip(call[d]) => d = c
  BY <1>1, <1>3 DEF Alone
<1> DEFINE m == Telling(c, call[c].held)
<1>5. m \in Message /\ m.kind = "inject" /\ m.from = c /\ m.arg = call[c].held
  BY <1>2 DEF Telling, Message, Call, Kinds
<1> HIDE DEF m
<1>6. ~Clear(r) /\ Hand(r) = {} /\ Trip(r)
  BY <1>3 DEF Clear, Hand, Trip
<1>7. Fresher(c, r, m)
  BY <1>1, <1>2, <1>3, <1>5, <1>6 DEF Fresher, Awaited, Fine
<1>8. \A x : In(thread[t].inbox, x) => May(x, m)
  <2> SUFFICES ASSUME NEW x, In(thread[t].inbox, x) PROVE x.kind \notin {"inject", "count", "settlers"}
    BY <1>5 DEF May
  <2>1. t \in Threads /\ x.from \in Conns /\ Awaited(x, call[x.from]) /\ Numbered(x, call[x.from])
    BY <1>1, InMessage DEF Letters, Threads, Always, Lettered
  <2>2. x.kind # "inject"
    BY <1>1, <2>1 DEF Calm, Census, Sent, Underway
  <2>3. x.kind = KindOf(call[x.from].at) /\ call[x.from].at \in WaitingPlaces
    BY <2>1, <2>2 DEF Awaited, Numbered
  <2>4. ASSUME x.kind \in {"count", "settlers"} PROVE FALSE
    <3>1. call[x.from].at \in {"counting", "fetching"}
      BY <2>3, <2>4 DEF KindOf, WaitingPlaces
    <3>2. Trip(call[x.from])
      BY <1>1, <2>1, <3>1 DEF Alone, Purposeful, Trip, LoginPlaces, CentralPlaces, HomePlaces
    <3>. QED BY <1>4, <2>1, <3>1, <3>2
  <2>. QED BY <2>2, <2>4
<1>9. /\ \A k : PeopleOf(k)' = PeopleOf(k)
      /\ \A u \in Threads' : Sorted(thread'[u].inbox)
      /\ \A u \in Threads : \A x : In(thread[u].inbox, x) => u \in Threads' /\ In(thread'[u].inbox, x)
      /\ \A u \in Threads' : \A x : In(thread'[u].inbox, x) => (u \in Threads /\ In(thread[u].inbox, x)) \/ (u = t /\ x = m)
      /\ t \in Threads' /\ In(thread'[t].inbox, m)
  BY <1>1, <1>5, <1>8, MailPut DEF m
<1>10. \A u \in Threads' : \A x : In(thread'[u].inbox, x) => (u \in Threads /\ In(thread[u].inbox, x)) \/ Fresher(c, r, x)
  BY <1>7, <1>9
<1>11. \A s \in Hand(call[c]) : s \in Hand(r) \/ \E u \in Threads' : \E x : In(thread'[u].inbox, x) /\ x.kind = "inject" /\ s \in x.arg
  BY <1>1, <1>5, <1>9
<1>12. Fine(c, r, PeopleOf(Me(c)), PeopleOf(Central))
  BY <1>6, FineIdle
<1>13. (Trip(r) => entry' = c) /\ \A d \in Conns : d # c /\ entry = d => entry' = d
  BY <1>3
<1>. QED BY <1>1, <1>6, <1>9, <1>10, <1>11, <1>12, <1>13, StepCensus

\* Migrants go from hand into a message, ...
LEMMA InjectCensus == ASSUME Calm, Always', NEW c \in Conns, Inject(c) PROVE Census'
<1> DEFINE r == [call[c] EXCEPT !.at = "enter", !.held = {}]
<1>1. call[c].at = "inject" /\ UNCHANGED file
  BY InjectIs DEF Calm, Always
<1>2. call[c] \in Call /\ Purposeful(call[c]) /\ (Trip(call[c]) => entry = c) /\ Points(thread, c, call[c])
      /\ Fine(c, call[c], PeopleOf(Me(c)), PeopleOf(Central)) /\ Carries(c, call[c])
  BY CallIs
<1>3. call[c].cen \in 1..Len(thread) /\ Hears(call[c].cen)
  BY <1>1, <1>2, NoneDropped DEF Points, OwnPlaces, CenPlaces, Runs
<1>4. Puts(call[c].cen, Telling(c, call[c].held)) /\ UNCHANGED entry /\ Turns(c, r)
  BY <1>3, InjectIs DEF Calm, Always
<1>5. r \in Call /\ r.at = "enter" /\ r.goal = call[c].goal
  BY <1>2, <1>4, TurnedCall DEF Calm, Call
<1> HIDE DEF r
<1>6. Purposeful(r)
  BY <1>1, <1>2, <1>5 DEF Purposeful, LoginPlaces, CentralPlaces, HomePlaces
<1>. QED BY <1>1, <1>3, <1>4, <1>5, <1>6, TellCensus

\* ... and so do those who found no room at home.
LEMMA PutBackCensus == ASSUME Calm, Always', NEW c \in Conns, PutBack(c) PROVE Census'
<1> DEFINE r == [call[c] EXCEPT !.at = "join", !.held = {}]
<1>1. call[c].at = "putback" /\ UNCHANGED <<file, entry>> /\ Turns(c, r)
  BY PutBackIs DEF Calm, Always
<1>2. call[c] \in Call /\ Purposeful(call[c]) /\ (Trip(call[c]) => entry = c) /\ Points(thread, c, call[c])
      /\ Fine(c, call[c], PeopleOf(Me(c)), PeopleOf(Central)) /\ Carries(c, call[c])
  BY CallIs
<1>3. call[c].cen \in 1..Len(thread) /\ Hears(call[c].cen)
  BY <1>1, <1>2, NoneDropped DEF Points, OwnPlaces, CenPlaces, Runs
<1>4. Puts(call[c].cen, Telling(c, call[c].held))
  BY <1>3, PutBackIs DEF Calm, Always
<1>5. r \in Call /\ r.at = "join" /\ r.goal = call[c].goal
  BY <1>1, <1>2, TurnedCall DEF Calm, Call
<1> HIDE DEF r
<1>6. Purposeful(r)
  BY <1>1, <1>2, <1>5 DEF Purposeful, LoginPlaces, CentralPlaces, HomePlaces
<1>. QED BY <1>1, <1>3, <1>4, <1>5, <1>6, TellCensus

\* Whatever step the call takes.
LEMMA CallsCensus == ASSUME Calm, Always', NEW c \in Conns, CallStep(c) PROVE Census'
<1>1. ~ForgetOwn(c) /\ ~OwnAgain(c) /\ ~Stale(c)
  BY NoneDropped DEF ForgetOwn, OwnAgain, Stale, At
<1>2. \/ Lock(c) \/ Own(c) \/ JoinOwn(c) \/ Joining(c)
      \/ Cen(c) \/ Count(c) \/ Counting(c) \/ Recheck(c)
      \/ Extract(c) \/ Extracting(c) \/ Inject(c) \/ Enter(c) \/ Entering(c)
      \/ Find(c) \/ Fetch(c) \/ Fetching(c) \/ Settle(c) \/ Settling(c) \/ PutBack(c)
  BY <1>1 DEF CallStep
<1>3. CASE Lock(c) \/ Own(c) \/ JoinOwn(c) \/ Joining(c)
  BY <1>3, LockCensus, OwnCensus, JoinOwnCensus, JoiningCensus
<1>4. CASE Cen(c) \/ Count(c) \/ Counting(c) \/ Recheck(c)
  BY <1>4, CenCensus, CountCensus, CountingCensus, RecheckCensus
<1>5. CASE Extract(c) \/ Extracting(c) \/ Inject(c) \/ Enter(c) \/ Entering(c)
  BY <1>5, ExtractCensus, ExtractingCensus, InjectCensus, EnterCensus, EnteringCensus
<1>6. CASE Find(c) \/ Fetch(c) \/ Fetching(c) \/ Settle(c) \/ Settling(c) \/ PutBack(c)
  BY <1>6, FindCensus, FetchCensus, FetchingCensus, SettleCensus, SettlingCensus, PutBackCensus
<1>. QED BY <1>2, <1>3, <1>4, <1>5, <1>6

-----------------------------------------------------------------------------
(* The step of a thread *)

\* The first message of a queue or one behind it.
LEMMA InHead == ASSUME NEW q \in Seq(Message), q # <<>>, NEW x, In(q, x) PROVE x = Head(q) \/ In(Tail(q), x)
<1>1. Tail(q) \in Seq(Message) /\ Len(Tail(q)) = Len(q) - 1 /\ Len(q) \in Nat /\ Len(q) > 0 /\ Head(q) = q[1]
  OBVIOUS
<1>2. \A i \in 1..Len(Tail(q)) : Tail(q)[i] = q[i + 1]
  OBVIOUS
<1>3. PICK i \in 1..Len(q) : q[i] = x
  BY DEF In
<1>4. CASE i = 1
  BY <1>1, <1>3, <1>4
<1>5. CASE i # 1
  <2>1. i - 1 \in 1..Len(Tail(q)) /\ (i - 1) + 1 = i
    BY <1>1, <1>5
  <2>2. Tail(q)[i - 1] = x
    BY <1>2, <1>3, <2>1
  <2>. QED BY <2>1, <2>2 DEF In
<1>. QED BY <1>4, <1>5

\* Only the people of one world change.
LEMMA HeardPeople ==
  ASSUME Always, Told, stopping = "no", NEW t \in Threads, thread[t].st = "up", UNCHANGED file, Threads' = Threads,
         \A u \in Threads : /\ thread'[u].key = thread[u].key /\ thread'[u].st = thread[u].st
                            /\ u # t => thread'[u].people = thread[u].people
  PROVE  \A k : PeopleOf(k)' = IF k = thread[t].key THEN thread'[t].people ELSE PeopleOf(k)
<1> SUFFICES ASSUME NEW k PROVE PeopleOf(k)' = IF k = thread[t].key THEN thread'[t].people ELSE PeopleOf(k)
  OBVIOUS
<1>1. Running(k)' = Running(k)
  BY DEF Running
<1>2. CASE k = thread[t].key
  <2>1. Running(k) = {t}
    BY <1>2, OneHome DEF Running
  <2>2. {thread'[u].people : u \in Running(k)'} = {thread'[t].people}
    BY <1>1, <2>1
  <2>3. UNION {thread'[t].people} = thread'[t].people
    OBVIOUS
  <2>. QED BY <1>1, <1>2, <2>1, <2>2, <2>3 DEF PeopleOf
<1>3. CASE k # thread[t].key
  <2>1. \A u \in Running(k) : thread'[u].people = thread[u].people
    BY <1>3 DEF Running
  <2>2. {thread'[u].people : u \in Running(k)'} = {thread[u].people : u \in Running(k)}
    BY <1>1, <2>1
  <2>. QED BY <1>1, <1>3, <2>2 DEF PeopleOf
<1>. QED BY <1>2, <1>3

\* The rest of the mail, when the first message of a thread is heard.
Popped(t, m) ==
  /\ thread[t].inbox # <<>> /\ m = Head(thread[t].inbox) /\ Threads' = Threads
  /\ thread'[t].inbox = Tail(thread[t].inbox)
  /\ \A u \in Threads : u # t => thread'[u].inbox = thread[u].inbox

OnlyTo(m) == (\A d \in Conns : d # m.from => call'[d] = call[d]) /\ (m.kind = "inject" => call' = call)

Passed(m) ==
  /\ Letters' /\ Threads' = Threads
  /\ \A u \in Threads : \A x : In(thread'[u].inbox, x) => In(thread[u].inbox, x)
  /\ \A u \in Threads : \A x : In(thread[u].inbox, x) => In(thread'[u].inbox, x) \/ x = m
  /\ m.kind \in {"inject", "count", "settlers"} =>
       \A u \in Threads : \A x : In(thread'[u].inbox, x) => x.kind # "inject"

\* The rest of the mail stays in order and awaited; and where settlers have arrived, or have just
\* been asked after, no others are on their way.
LEMMA HeardMail ==
  ASSUME Calm, NEW t \in Threads, NEW m, Popped(t, m), OnlyTo(m)
  PROVE  Passed(m) /\ In(thread[t].inbox, m)
<1>0. /\ thread[t].inbox # <<>> /\ m = Head(thread[t].inbox) /\ Threads' = Threads
      /\ thread'[t].inbox = Tail(thread[t].inbox)
      /\ \A u \in Threads : u # t => thread'[u].inbox = thread[u].inbox
      /\ (\A d \in Conns : d # m.from => call'[d] = call[d]) /\ (m.kind = "inject" => call' = call)
  BY DEF Popped, OnlyTo
<1>1. Always /\ Told /\ Letters /\ stopping = "no" /\ t \in 1..Len(thread)
  BY DEF Calm, Census, Threads
<1>2. thread[t].inbox \in Seq(Message)
  <2>1. thread[t] \in Thread
    BY <1>1 DEF Always, Shape
  <2>. QED BY <2>1 DEF Thread
<1>3. Sorted(thread[t].inbox)
  BY <1>1 DEF Letters
<1>4. /\ In(thread[t].inbox, m) /\ m \in Message
      /\ \A x : In(thread'[t].inbox, x) => In(thread[t].inbox, x) /\ May(m, x)
      /\ \A x : In(thread[t].inbox, x) => In(thread'[t].inbox, x) \/ x = m
      /\ Sorted(thread'[t].inbox)
  BY <1>0, <1>2, <1>3, InTail, InHead, SortedTail
<1>5. m.from \in Conns /\ Rightly(m, thread[t].key) /\ Awaited(m, call[m.from]) /\ Numbered(m, call[m.from])
  BY <1>1, <1>4, InMessage DEF Always, Lettered, Letters
<1>6. \A u \in Threads : \A x : In(thread'[u].inbox, x) => In(thread[u].inbox, x)
  BY <1>0, <1>4
<1>7. \A u \in Threads : \A x : In(thread[u].inbox, x) => In(thread'[u].inbox, x) \/ x = m
  BY <1>0, <1>4
<1>8. Letters'
  <2>1. \A u \in Threads : Sorted(thread'[u].inbox)
    BY <1>0, <1>1, <1>4 DEF Letters
  <2>2. ASSUME NEW u \in Threads, NEW x, In(thread'[u].inbox, x) PROVE Awaited(x, call'[x.from])
    <3>1. Awaited(x, call[x.from]) /\ x.from \in Conns
      BY <1>1, <1>6, <2>2, InMessage DEF Letters, Always, Threads
    <3>2. CASE x.from # m.from \/ x.kind = "inject" \/ m.kind = "inject"
      BY <1>0, <3>1, <3>2 DEF Awaited
    <3>3. CASE x.from = m.from /\ x.kind # "inject" /\ m.kind # "inject"
      <4>1. u # t
        BY <1>4, <2>2, <3>3 DEF May
      <4>2. t = Waited(call[m.from]) /\ u = Waited(call[m.from])
        <5>1. m.seq = call[m.from].seq /\ call[m.from].at \in WaitingPlaces BY <1>5, <3>3 DEF Awaited
        <5>2. x.seq = call[x.from].seq /\ call[x.from].at \in WaitingPlaces BY <3>1, <3>3 DEF Awaited
        <5>3. In(thread[u].inbox, x) BY <1>6, <2>2
        <5>4. AskedThere BY <1>1 DEF Told
        <5>5. t = Waited(call[m.from]) BY <1>4, <5>1, <5>4 DEF AskedThere
        <5>6. u = Waited(call[x.from]) BY <5>2, <5>3, <5>4 DEF AskedThere
        <5>. QED BY <3>3, <5>5, <5>6
      <4>. QED BY <4>1, <4>2
    <3>. QED BY <3>2, <3>3
  <2>. QED BY <1>0, <2>1, <2>2 DEF Letters
<1>9. ASSUME m.kind \in {"inject", "count", "settlers"}, NEW u \in Threads, NEW x, In(thread'[u].inbox, x), x.kind = "inject" PROVE FALSE
  <2>1. Rightly(x, thread[u].key) /\ u \in 1..Len(thread)
    BY <1>1, <1>6, <1>9 DEF Always, Lettered, Threads
  <2>2. thread[t].key = Central /\ thread[u].key = Central
    BY <1>5, <1>9, <2>1 DEF Rightly
  <2>3. u = t
    BY <1>1, <2>2, OneHome
  <2>. QED BY <1>4, <1>9, <2>3 DEF May
<1>. QED BY <1>0, <1>4, <1>6, <1>7, <1>8, <1>9 DEF Passed

\* Whom a call has in hand is of its account.
LEMMA HandOfOwn == ASSUME NEW c, NEW r, Carries(c, r) PROVE Hand(r) \subseteq Born[Me(c)]
<1>1. Leftover(r.held, r.ans.value) \subseteq r.held
  BY DEF Leftover
<1>. QED BY <1>1 DEF Carries, Hand

\* An answer heard of by the call it is for.
Turned(c, r) == c \in Conns /\ call'[c] = r /\ \A d \in Conns : d # c => call'[d] = call[d]

\* The people of the caller's world, of the central world and of the others, as they are now.
Peopled(c, O, C) ==
  /\ O = PeopleOf(Me(c))' /\ C = PeopleOf(Central)' /\ O \cap C = {}
  /\ \A a \in Accounts : a # Me(c) => PeopleOf(a)' = PeopleOf(a) /\ Owned(a, C) = Owned(a, PeopleOf(Central))

\* Nobody of the caller's account is lost.
NoneLost(c, r, O, C) ==
  /\ \A s \in PeopleOf(Me(c)) \cup Hand(call[c]) : s \in O \/ s \in Hand(r)
  /\ \A s \in Owned(Me(c), PeopleOf(Central)) : s \in C \/ s \in Hand(r)

\* What an answer must do: move people of the caller only, lose none, and tell the call what is so.
LEMMA HearCensus ==
  ASSUME Calm, NEW c, NEW r, Turned(c, r), r.at = call[c].at, r.goal = call[c].goal, UNCHANGED entry,
         NEW m, m.kind # "inject", Passed(m), Clear(r) /\ ~Clear(call[c]) => m.kind \in {"count", "settlers"},
         NEW O, NEW C, Peopled(c, O, C), NoneLost(c, r, O, C), Fine(c, r, O, C),
         Trip(call[c]) \/ (O = PeopleOf(Me(c)) /\ C = PeopleOf(Central)),
         Clear(r) \/ (O \subseteq PeopleOf(Me(c)) /\ C = PeopleOf(Central))
  PROVE  Census'
<1>1. Alone /\ Letters /\ Sent /\ Informed /\ Everyone /\ Always /\ Told /\ stopping = "no"
  BY DEF Calm, Census
<1>0. /\ c \in Conns /\ call'[c] = r /\ (\A d \in Conns : d # c => call'[d] = call[d])
      /\ Letters' /\ Threads' = Threads
      /\ (\A u \in Threads : \A x : In(thread'[u].inbox, x) => In(thread[u].inbox, x))
      /\ (\A u \in Threads : \A x : In(thread[u].inbox, x) /\ x.kind = "inject" => In(thread'[u].inbox, x))
      /\ (Clear(r) /\ ~Clear(call[c]) => \A u \in Threads : \A x : In(thread'[u].inbox, x) => x.kind # "inject")
      /\ O = PeopleOf(Me(c))' /\ C = PeopleOf(Central)' /\ O \cap C = {}
      /\ (\A a \in Accounts : a # Me(c) => PeopleOf(a)' = PeopleOf(a) /\ Owned(a, C) = Owned(a, PeopleOf(Central)))
      /\ (\A s \in PeopleOf(Me(c)) \cup Hand(call[c]) : s \in O \/ s \in Hand(r))
      /\ (\A s \in Owned(Me(c), PeopleOf(Central)) : s \in C \/ s \in Hand(r))
  BY DEF Turned, Passed, Peopled, NoneLost
<1>2. Purposeful(r) /\ (Trip(r) <=> Trip(call[c]))
  BY <1>0, <1>1 DEF Alone, Purposeful, Trip
<1>3. Alone'
  BY <1>0, <1>1, <1>2 DEF Alone
<1>4. ASSUME NEW u \in Threads, NEW x, In(thread'[u].inbox, x), x.kind = "inject"
      PROVE  Underway(x, PeopleOf(Me(x.from)), PeopleOf(Central))'
  <2>1. Underway(x, PeopleOf(Me(x.from)), PeopleOf(Central)) /\ x.from \in Conns
    BY <1>0, <1>1, <1>4, InMessage DEF Sent, Threads, Always
  <2>2. ~Clear(call[c]) /\ ~Clear(r) /\ O \subseteq PeopleOf(Me(c)) /\ C = PeopleOf(Central)
    BY <1>0, <1>4, <2>1 DEF Underway
  <2>3. \A d \in Conns : ~Clear(call'[d])
    BY <1>0, <2>1, <2>2 DEF Underway
  <2>4. Me(x.from) \in Accounts
    BY <1>0, <1>1, <2>1, Knows
  <2>5. PeopleOf(Me(x.from))' \subseteq PeopleOf(Me(x.from))
    BY <1>0, <2>2, <2>4 DEF Me
  <2>. QED BY <1>0, <2>1, <2>2, <2>3, <2>5 DEF Underway
<1>5. Sent'
  BY <1>0, <1>4 DEF Sent
<1>6. ASSUME NEW d \in Conns PROVE Fine(d, call'[d], PeopleOf(Me(d))', PeopleOf(Central)')
  <2>1. CASE d = c
    BY <1>0, <2>1
  <2>2. CASE d # c /\ Trip(call[c])
    BY <1>0, <2>2, OthersIdle, FineIdle
  <2>3. CASE d # c /\ O = PeopleOf(Me(c)) /\ C = PeopleOf(Central)
    <3>1. Fine(d, call[d], PeopleOf(Me(d)), PeopleOf(Central)) /\ Me(d) \in Accounts
      BY <1>0, <1>1, Knows DEF Informed
    <3>2. PeopleOf(Me(d))' = PeopleOf(Me(d))
      BY <1>0, <2>3, <3>1 DEF Me
    <3>. QED BY <1>0, <2>3, <3>1, <3>2
  <2>. QED BY <1>0, <2>1, <2>2, <2>3
<1>7. Informed'
  <2> SUFFICES ASSUME NEW d \in Conns PROVE Fine(d, call[d], PeopleOf(Me(d)), PeopleOf(Central))'
    BY <1>0 DEF Informed
  <2>. QED BY <1>0, <1>6 DEF Fine
<1>8. Me(c) \in Accounts /\ Carries(c, call[c]) /\ \A a \in Accounts : PeopleOf(a) \subseteq Born[a]
  BY <1>0, <1>1, OneHome, Knows DEF Fits, Keys
<1>9. ASSUME NEW a \in Accounts PROVE (PeopleOf(a) \cap PeopleOf(Central) = {})'
  <2>1. CASE a = Me(c)
    BY <1>0, <2>1 DEF Me
  <2>2. CASE a # Me(c)
    <3>1. PeopleOf(a) \cap PeopleOf(Central) = {} /\ PeopleOf(a)' = PeopleOf(a) /\ Owned(a, C) = Owned(a, PeopleOf(Central))
      BY <1>0, <1>1, <2>2 DEF Everyone
    <3>. QED BY <1>0, <1>8, <3>1 DEF Owned
  <2>. QED BY <1>0, <2>1, <2>2
<1>10. ASSUME NEW a \in Accounts, NEW s \in Born[a] PROVE Somewhere(a, s)'
  <2>1. Somewhere(a, s)
    BY <1>0, <1>1 DEF Everyone
  <2>2. ASSUME NEW u \in Threads, NEW x, In(thread[u].inbox, x), x.kind = "inject", s \in x.arg PROVE Somewhere(a, s)'
    BY <1>0, <2>2 DEF Somewhere
  <2>3. ASSUME NEW d \in Conns, d # c, s \in Hand(call[d]) PROVE Somewhere(a, s)'
    BY <1>0, <2>3 DEF Somewhere
  <2>4. s \in Hand(r) => Somewhere(a, s)'
    BY <1>0 DEF Somewhere
  <2>5. s \in C => Somewhere(a, s)'
    BY <1>0 DEF Somewhere
  <2>6. CASE a = Me(c) /\ (s \in PeopleOf(a) \/ s \in PeopleOf(Central) \/ s \in Hand(call[c]))
    <3>1. s \in O => Somewhere(a, s)'
      BY <1>0, <2>6 DEF Somewhere, Me
    <3>. QED BY <1>0, <2>4, <2>5, <2>6, <3>1 DEF Owned
  <2>7. CASE a # Me(c) /\ (s \in PeopleOf(a) \/ s \in PeopleOf(Central) \/ s \in Hand(call[c]))
    <3>1. Born[a] \cap Born[Me(c)] = {}
      BY <1>0, <1>8, <2>7, ManagerAssumption
    <3>2. s \notin Hand(call[c])
      BY <1>0, <1>8, <3>1, HandOfOwn
    <3>3. CASE s \in PeopleOf(a)
      BY <1>0, <2>7, <3>3 DEF Somewhere
    <3>4. CASE s \in PeopleOf(Central)
      BY <1>0, <2>5, <2>7, <3>4 DEF Owned
    <3>. QED BY <1>0, <2>7, <3>2, <3>3, <3>4
  <2>. QED BY <1>0, <2>1, <2>2, <2>3, <2>6, <2>7 DEF Somewhere
<1>11. Everyone'
  BY <1>0, <1>9, <1>10 DEF Everyone
<1>. QED BY <1>0, <1>3, <1>5, <1>7, <1>11 DEF Census

-----------------------------------------------------------------------------
(* A message heard *)

\* A thread takes the first message of its inbox, and has these people then.
Takes(t, m, people) ==
  /\ t \in Threads /\ Handle(t) /\ m = Head(thread[t].inbox)
  /\ \E guests : thread' = [thread EXCEPT ![t] = Hearing(t, people, guests)]

\* Only the world of one thread has other people than before.
Lived(t, people) == \A k : PeopleOf(k)' = IF k = thread[t].key THEN people ELSE PeopleOf(k)

\* What hearing a message changes, whatever the message is.
LEMMA Heard ==
  ASSUME Calm, NEW t, NEW m, NEW people, Takes(t, m, people), OnlyTo(m)
  PROVE  Passed(m) /\ In(thread[t].inbox, m) /\ UNCHANGED entry /\ Lived(t, people)
<1>1. t \in Threads /\ Handle(t) /\ m = Head(thread[t].inbox)
  BY DEF Takes
<1>2. PICK guests : thread' = [thread EXCEPT ![t] = Hearing(t, people, guests)]
  BY Zenon DEF Takes
<1>3. Always /\ Told /\ stopping = "no"
  BY DEF Calm
<1>4. thread[t].inbox # <<>> /\ UNCHANGED <<file, entry>> /\ thread[t].st = "up"
  BY <1>1, Zenon DEF Handle
<1>5. thread \in Seq(Thread) /\ thread[t] \in Thread
  BY <1>1, <1>3 DEF Always, Shape, Threads
<1>6. Threads' = Threads
  BY <1>2, <1>5 DEF Threads
<1>7. thread'[t] = Hearing(t, people, guests) /\ \A u \in Threads : u # t => thread'[u] = thread[u]
  BY <1>1, <1>2, <1>5 DEF Threads
<1>8. /\ thread'[t].key = thread[t].key /\ thread'[t].st = thread[t].st
      /\ thread'[t].inbox = Tail(thread[t].inbox) /\ thread'[t].people = people
  BY <1>5, <1>7 DEF Hearing, Thread
<1>9. Lived(t, people)
  BY <1>1, <1>3, <1>4, <1>6, <1>7, <1>8, HeardPeople DEF Lived
<1>10. Popped(t, m)
  BY <1>1, <1>4, <1>6, <1>7, <1>8 DEF Popped
<1>. QED BY <1>1, <1>4, <1>9, <1>10, HeardMail

\* A question heard is the one its call waits for; the answer changes that call alone.
LEMMA Answering ==
  ASSUME Calm, NEW t, NEW m, NEW people, Takes(t, m, people), m.kind # "inject",
         NEW answer, call' = Reply(m, answer), NEW c, c = m.from, NEW r, r = call'[c]
  PROVE  /\ Turned(c, r) /\ c \in Conns /\ Passed(m) /\ UNCHANGED entry /\ Lived(t, people)
         /\ PeopleOf(thread[t].key) = thread[t].people /\ Rightly(m, thread[t].key)
         /\ Purposeful(call[c]) /\ call[c].at \in WaitingPlaces /\ m.kind = KindOf(call[c].at)
         /\ call[c].ans = Waiting /\ Awaited(m, call[c]) /\ Carries(c, call[c])
         /\ Fine(c, call[c], PeopleOf(Me(c)), PeopleOf(Central))
         /\ r.at = call[c].at /\ r.goal = call[c].goal /\ r.held = call[c].held /\ r.want = call[c].want
         /\ r.ans = answer
<1>1. t \in Threads /\ Handle(t) /\ m = Head(thread[t].inbox)
  BY DEF Takes
<1>2. Always /\ Told /\ stopping = "no" /\ Alone /\ Informed /\ Letters
  BY DEF Calm, Census
<1>3. thread[t].inbox # <<>> /\ thread[t].st = "up"
  BY <1>1, Zenon DEF Handle
<1>4. thread[t].inbox \in Seq(Message)
  <2>1. thread[t] \in Thread
    BY <1>1, <1>2 DEF Always, Shape, Threads
  <2>. QED BY <2>1 DEF Thread
<1>5. In(thread[t].inbox, m)
  BY <1>1, <1>3, <1>4, InTail
<1>6. c \in Conns /\ Rightly(m, thread[t].key) /\ Awaited(m, call[c]) /\ Numbered(m, call[c])
  BY <1>1, <1>2, <1>5, InMessage DEF Always, Lettered, Letters, Threads
<1>7. call \in [Conns -> Call] /\ call' = [call EXCEPT ![c].ans = answer]
  BY <1>2, <1>6 DEF Awaited, Reply, Always, Shape
<1>8. call[c] \in Call /\ r = [call[c] EXCEPT !.ans = answer] /\ \A d \in Conns : d # c => call'[d] = call[d]
  BY <1>6, <1>7
<1>9. r.at = call[c].at /\ r.goal = call[c].goal /\ r.held = call[c].held /\ r.want = call[c].want /\ r.ans = answer
  BY <1>8 DEF Call
<1>10. OnlyTo(m) /\ Turned(c, r)
  BY <1>6, <1>8 DEF OnlyTo, Turned
<1>11. Passed(m) /\ UNCHANGED entry /\ Lived(t, people)
  BY <1>10, Heard
<1>12. PeopleOf(thread[t].key) = thread[t].people
  BY <1>1, <1>2, <1>3, OneHome
<1>13. Purposeful(call[c]) /\ Carries(c, call[c]) /\ Fine(c, call[c], PeopleOf(Me(c)), PeopleOf(Central))
  BY <1>2, <1>6 DEF Alone, Informed, Always, Calling
<1>14. call[c].at \in WaitingPlaces /\ m.kind = KindOf(call[c].at) /\ call[c].ans = Waiting
  BY <1>6 DEF Awaited, Numbered
<1>. QED BY <1>6, <1>9, <1>10, <1>11, <1>12, <1>13, <1>14

\* The account of a call has a world of its own, and nobody is in it and in the central one.
LEMMA TwoWorlds ==
  ASSUME Calm, NEW c \in Conns
  PROVE  /\ Me(c) \in Accounts /\ Me(c) # Central /\ PeopleOf(Me(c)) \cap PeopleOf(Central) = {}
         /\ PeopleOf(Me(c)) \subseteq Born[Me(c)] /\ Fits(Central, PeopleOf(Central))
         /\ \A a \in Accounts : a # Central /\ (a # Me(c) => Born[a] \cap Born[Me(c)] = {})
BY Knows, OneHome, ManagerAssumption DEF Calm, Census, Everyone, Fits, Keys

\* The people of the worlds, when those of the caller's change, ...
LEMMA HomeChanges ==
  ASSUME Calm, NEW c \in Conns, NEW t, NEW people, Lived(t, people), thread[t].key = Me(c),
         people \cap PeopleOf(Central) = {}
  PROVE  Peopled(c, people, PeopleOf(Central))
BY TwoWorlds DEF Lived, Peopled, Me

\* ... when those of the central world do, ...
LEMMA CentralChanges ==
  ASSUME Calm, NEW c \in Conns, NEW t, NEW people, Lived(t, people), thread[t].key = Central,
         people \cap PeopleOf(Me(c)) = {}, \A a \in Accounts : a # Me(c) => Owned(a, people) = Owned(a, PeopleOf(Central))
  PROVE  Peopled(c, PeopleOf(Me(c)), people)
BY TwoWorlds DEF Lived, Peopled, Me

\* ... and when none do.
LEMMA NobodyMoves ==
  ASSUME Calm, NEW c \in Conns, NEW t, Lived(t, PeopleOf(thread[t].key))
  PROVE  Peopled(c, PeopleOf(Me(c)), PeopleOf(Central))
BY TwoWorlds DEF Lived, Peopled, Me


\* A join moves nobody.
LEMMA HearJoin ==
  ASSUME Calm, NEW t, NEW m, Takes(t, m, thread[t].people), m.kind = "join", call' = Reply(m, Answer({}))
  PROVE  Census'
<1> DEFINE c == m.from
           r == call'[c]
<1>1. /\ Turned(c, r) /\ c \in Conns /\ Passed(m) /\ UNCHANGED entry /\ Lived(t, thread[t].people)
      /\ PeopleOf(thread[t].key) = thread[t].people
      /\ call[c].at \in WaitingPlaces /\ m.kind = KindOf(call[c].at) /\ r.at = call[c].at /\ r.goal = call[c].goal
  BY Answering
<1>2. Peopled(c, PeopleOf(Me(c)), PeopleOf(Central))
  BY <1>1, NobodyMoves
<1>3. ~Clear(r) /\ Hand(r) = {} /\ Hand(call[c]) = {}
  BY <1>1 DEF Clear, Hand, KindOf, WaitingPlaces
<1>4. Fine(c, r, PeopleOf(Me(c)), PeopleOf(Central))
  BY <1>3, FineIdle
<1>5. NoneLost(c, r, PeopleOf(Me(c)), PeopleOf(Central))
  BY <1>3 DEF NoneLost, Owned
<1> HIDE DEF c, r
<1>. QED BY <1>1, <1>2, <1>3, <1>4, <1>5, HearCensus

\* So does the refusal of a world that has not graduated, ...
LEMMA HearRefusal ==
  ASSUME Calm, NEW t, NEW m, Takes(t, m, thread[t].people), m.kind = "extract", call' = Reply(m, Ungraduated)
  PROVE  Census'
<1> DEFINE c == m.from
           r == call'[c]
<1>1. /\ Turned(c, r) /\ c \in Conns /\ Passed(m) /\ UNCHANGED entry /\ Lived(t, thread[t].people)
      /\ PeopleOf(thread[t].key) = thread[t].people
      /\ call[c].at \in WaitingPlaces /\ m.kind = KindOf(call[c].at) /\ call[c].ans = Waiting
      /\ r.at = call[c].at /\ r.goal = call[c].goal /\ r.want = call[c].want /\ r.ans = Ungraduated
      /\ Fine(c, call[c], PeopleOf(Me(c)), PeopleOf(Central))
  BY Answering
<1>2. Peopled(c, PeopleOf(Me(c)), PeopleOf(Central))
  BY <1>1, NobodyMoves
<1>3. r.at = "extracting" /\ Hand(r) = {} /\ Hand(call[c]) = {} /\ Clear(call[c])
  BY <1>1, AnswerKinds DEF Clear, Hand, KindOf, WaitingPlaces
<1>4. Fine(c, r, PeopleOf(Me(c)), PeopleOf(Central))
  BY <1>1, <1>3 DEF Fine
<1>5. NoneLost(c, r, PeopleOf(Me(c)), PeopleOf(Central))
  BY <1>3 DEF NoneLost, Owned
<1> HIDE DEF c, r
<1>. QED BY <1>1, <1>2, <1>3, <1>4, <1>5, HearCensus

\* How many of an account live in the central world.
LEMMA OwnedCount ==
  ASSUME Calm, NEW c \in Conns
  PROVE  /\ Cardinality(Owned(Me(c), PeopleOf(Central))) \in Nat /\ IsFiniteSet(Owned(Me(c), PeopleOf(Central)))
         /\ Cardinality(Owned(Me(c), PeopleOf(Central))) <= GroupCap /\ Cardinality({}) = 0 /\ GroupCap \in Nat
<1>1. Me(c) \in Accounts /\ Fits(Central, PeopleOf(Central)) /\ GroupCap \in Nat
  BY TwoWorlds, ManagerAssumption
<1>2. Owned(Me(c), PeopleOf(Central)) \in SUBSET Settlers
  BY <1>1 DEF Owned, Fits
<1>. QED BY <1>1, <1>2, ManagerAssumption, FS_Subset, FS_CardinalityType, FS_EmptySet DEF Fits

\* ... and a count, which is right.
LEMMA HearCount ==
  ASSUME Calm, NEW t, NEW m, Takes(t, m, thread[t].people), m.kind = "count",
         call' = Reply(m, Answer(Cardinality(Owned(Me(m.from), thread[t].people))))
  PROVE  Census'
<1> DEFINE c == m.from
           r == call'[c]
           n == Cardinality(Owned(Me(c), thread[t].people))
<1>1. /\ Turned(c, r) /\ c \in Conns /\ Passed(m) /\ UNCHANGED entry /\ Lived(t, thread[t].people)
      /\ PeopleOf(thread[t].key) = thread[t].people /\ Rightly(m, thread[t].key)
      /\ call[c].at \in WaitingPlaces /\ m.kind = KindOf(call[c].at) /\ call[c].ans = Waiting
      /\ r.at = call[c].at /\ r.goal = call[c].goal /\ r.ans = Answer(n)
  BY Answering
<1>2. Peopled(c, PeopleOf(Me(c)), PeopleOf(Central))
  BY <1>1, NobodyMoves
<1>3. r.at = "counting" /\ Hand(r) = {} /\ Hand(call[c]) = {} /\ Clear(r)
  <2>1. r.at = "counting" /\ r.ans.is = "value"
    BY <1>1 DEF KindOf, WaitingPlaces, Answer
  <2> HIDE DEF r, n
  <2>. QED BY <1>1, <2>1 DEF Clear, Hand
<1>4. r.ans.value = n /\ n = Cardinality(Owned(Me(c), PeopleOf(Central)))
  BY <1>1 DEF Answer, Rightly
<1>5. Fine(c, r, PeopleOf(Me(c)), PeopleOf(Central))
  BY <1>1, <1>3, <1>4, OwnedCount DEF Fine
<1>6. NoneLost(c, r, PeopleOf(Me(c)), PeopleOf(Central))
  BY <1>3 DEF NoneLost, Owned
<1> HIDE DEF c, r
<1>. QED BY <1>1, <1>2, <1>3, <1>5, <1>6, HearCensus

\* Those who leave home are in the answer, and fit where the call takes them.
LEMMA HearExtract ==
  ASSUME Calm, NEW t, NEW m, NEW gone \in SUBSET thread[t].people, Takes(t, m, thread[t].people \ gone), m.kind = "extract",
         Cardinality(gone) = MayLeave(thread[t].people, m.arg), call' = Reply(m, Answer(gone))
  PROVE  Census'
<1> DEFINE c == m.from
           r == call'[c]
           S == thread[t].people
           C == PeopleOf(Central)
<1>1. /\ Turned(c, r) /\ c \in Conns /\ Passed(m) /\ UNCHANGED entry /\ Lived(t, S \ gone)
      /\ PeopleOf(thread[t].key) = S /\ Rightly(m, thread[t].key) /\ Purposeful(call[c])
      /\ call[c].at \in WaitingPlaces /\ m.kind = KindOf(call[c].at) /\ call[c].ans = Waiting
      /\ Awaited(m, call[c]) /\ Fine(c, call[c], PeopleOf(Me(c)), C) /\ Carries(c, call[c])
      /\ r.at = call[c].at /\ r.goal = call[c].goal /\ r.want = call[c].want /\ r.ans = Answer(gone)
  BY Answering
<1>2. S = PeopleOf(Me(c)) /\ thread[t].key = Me(c) /\ S \cap C = {} /\ m.arg \in Nat /\ m.arg = call[c].want
  BY <1>1, TwoWorlds DEF Rightly, Awaited
<1>3. Peopled(c, S \ gone, C)
  BY <1>1, <1>2, HomeChanges
<1>4. r.at = "extracting" /\ Hand(r) = gone /\ Hand(call[c]) = {} /\ Clear(call[c]) /\ r.goal = "central" /\ Trip(call[c])
  BY <1>1, AnswerKinds DEF Clear, Hand, KindOf, WaitingPlaces, Answer, Purposeful, LoginPlaces, HomePlaces, Trip
<1>5. Cardinality(gone) \in Nat /\ Cardinality(gone) <= m.arg
  <2>1. S \subseteq Settlers
    BY <1>1, <1>2, TwoWorlds, ManagerAssumption
  <2>2. IsFiniteSet(S) /\ IsFiniteSet(gone) /\ (S # {} => Cardinality(S) # 0)
    BY <2>1, ManagerAssumption, FS_Subset, FS_EmptySet
  <2>3. Cardinality(S) \in Nat /\ Cardinality(gone) \in Nat
    BY <2>2, FS_CardinalityType
  <2>. QED BY <1>2, <2>2, <2>3 DEF MayLeave, Smaller
<1>6. Fine(c, r, S \ gone, C)
  <2>1. Cardinality(Owned(Me(c), C)) + r.want <= GroupCap
    BY <1>1, <1>4 DEF Fine
  <2>2. Cardinality(Owned(Me(c), C)) + Cardinality(gone) <= GroupCap
    BY <1>1, <1>2, <1>5, <2>1, OwnedCount
  <2>. QED BY <1>1, <1>4, <2>1, <2>2 DEF Fine, Clear
<1>7. NoneLost(c, r, S \ gone, C)
  BY <1>2, <1>4 DEF NoneLost, Owned
<1>8. Clear(call[c]) /\ Clear(r)
  BY <1>1, <1>4 DEF Clear
<1> HIDE DEF c, r, S, C
<1>. QED BY <1>1, <1>3, <1>4, <1>6, <1>7, <1>8, HearCensus

\* All of an account's settlers leave the central world together.
LEMMA HearSettlers ==
  ASSUME Calm, NEW t, NEW m, Takes(t, m, thread[t].people \ Born[Me(m.from)]), m.kind = "settlers",
         call' = Reply(m, Answer(Owned(Me(m.from), thread[t].people)))
  PROVE  Census'
<1> DEFINE c == m.from
           r == call'[c]
           S == thread[t].people
           O == PeopleOf(Me(c))
<1>1. /\ Turned(c, r) /\ c \in Conns /\ Passed(m) /\ UNCHANGED entry /\ Lived(t, S \ Born[Me(c)])
      /\ PeopleOf(thread[t].key) = S /\ Rightly(m, thread[t].key) /\ Purposeful(call[c])
      /\ call[c].at \in WaitingPlaces /\ m.kind = KindOf(call[c].at) /\ call[c].ans = Waiting
      /\ r.at = call[c].at /\ r.goal = call[c].goal /\ r.ans = Answer(Owned(Me(c), S))
  BY Answering
<1>2. S = PeopleOf(Central) /\ thread[t].key = Central /\ S \cap O = {}
  BY <1>1, TwoWorlds DEF Rightly
<1>3. Peopled(c, O, S \ Born[Me(c)])
  <2>1. \A a \in Accounts : a # Me(c) => Owned(a, S \ Born[Me(c)]) = Owned(a, S)
    BY <1>1, TwoWorlds DEF Owned
  <2>. QED BY <1>1, <1>2, <2>1, CentralChanges
<1>4. r.at = "fetching" /\ Hand(r) = Owned(Me(c), S) /\ Hand(call[c]) = {} /\ Clear(r) /\ r.goal = "home" /\ Trip(call[c])
  BY <1>1, AnswerKinds DEF Clear, Hand, KindOf, WaitingPlaces, Answer, Purposeful, LoginPlaces, CentralPlaces, Trip
<1>5. Fine(c, r, O, S \ Born[Me(c)])
  <2>1. Owned(Me(c), S \ Born[Me(c)]) = {} /\ Hand(r) \cap O = {}
    BY <1>2, <1>4 DEF Owned
  <2>2. Cardinality({}) + Cardinality(Hand(r)) <= GroupCap
    BY <1>1, <1>2, <1>4, OwnedCount
  <2>. QED BY <1>4, <2>1, <2>2 DEF Fine
<1>6. NoneLost(c, r, O, S \ Born[Me(c)])
  BY <1>2, <1>4 DEF NoneLost, Owned
<1> HIDE DEF c, r, S, O
<1>. QED BY <1>1, <1>3, <1>4, <1>5, <1>6, HearCensus

\* Those who find room are at home, and the call learns how many to strike from its list.
LEMMA HearReturnees ==
  ASSUME Calm, NEW t, NEW m, NEW n, Takes(t, m, thread[t].people \cup Least(m.arg, n)), m.kind = "returnees",
         call' = Reply(m, Answer(n))
  PROVE  Census'
<1> DEFINE c == m.from
           r == call'[c]
           S == thread[t].people
           O == S \cup Least(m.arg, n)
           C == PeopleOf(Central)
<1>1. /\ Turned(c, r) /\ c \in Conns /\ Passed(m) /\ UNCHANGED entry /\ Lived(t, O)
      /\ PeopleOf(thread[t].key) = S /\ Rightly(m, thread[t].key) /\ Purposeful(call[c])
      /\ call[c].at \in WaitingPlaces /\ m.kind = KindOf(call[c].at) /\ call[c].ans = Waiting
      /\ Awaited(m, call[c]) /\ Fine(c, call[c], PeopleOf(Me(c)), C) /\ Carries(c, call[c])
      /\ r.at = call[c].at /\ r.goal = call[c].goal /\ r.held = call[c].held /\ r.ans = Answer(n)
  BY Answering
<1>2. /\ S = PeopleOf(Me(c)) /\ thread[t].key = Me(c) /\ S \cap C = {} /\ m.arg = call[c].held
      /\ m.arg \subseteq Born[Me(c)] /\ Least(m.arg, n) \subseteq m.arg
  BY <1>1, TwoWorlds DEF Rightly, Awaited, Least
<1>3. /\ r.at = "settling" /\ Hand(r) = m.arg \ Least(m.arg, n) /\ Hand(call[c]) = m.arg
      /\ Clear(call[c]) /\ Clear(r) /\ Trip(call[c])
  <2>1. call[c].at = "settling" /\ Trip(call[c])
    BY <1>1 DEF KindOf, WaitingPlaces, Purposeful, LoginPlaces, CentralPlaces, HomePlaces, Trip
  <2>2. Hand(call[c]) = m.arg
    BY <1>1, <1>2, <2>1, AnswerKinds DEF Hand
  <2>3. r.ans.is = "value" /\ r.ans.value = n
    BY <1>1 DEF Answer
  <2>4. Hand(r) = Leftover(m.arg, n)
    BY <1>1, <1>2, <2>1, <2>3 DEF Hand
  <2>. QED BY <1>1, <2>1, <2>2, <2>4 DEF Clear, Leftover
<1>4. Owned(Me(c), C) = {} /\ m.arg \cap S = {} /\ Cardinality({}) + Cardinality(m.arg) <= GroupCap
  BY <1>1, <1>2, <1>3 DEF Fine
<1>5. O \cap C = {}
  BY <1>2, <1>4 DEF Owned
<1>6. Peopled(c, O, C)
  BY <1>1, <1>2, <1>5, HomeChanges
<1>7. Cardinality({}) + Cardinality(Hand(r)) <= GroupCap
  <2>1. m.arg \in SUBSET Settlers /\ Hand(r) \subseteq m.arg
    BY <1>1, <1>2, <1>3, TwoWorlds, ManagerAssumption
  <2>2. IsFiniteSet(m.arg)
    BY <2>1, ManagerAssumption, FS_Subset
  <2>3. /\ Cardinality(Hand(r)) <= Cardinality(m.arg) /\ Cardinality(Hand(r)) \in Nat /\ Cardinality(m.arg) \in Nat
        /\ Cardinality({}) = 0 /\ GroupCap \in Nat
    BY <2>1, <2>2, FS_Subset, FS_CardinalityType, FS_EmptySet, ManagerAssumption
  <2>. QED BY <1>4, <2>3
<1>8. Fine(c, r, O, C)
  BY <1>3, <1>4, <1>7 DEF Fine
<1>9. NoneLost(c, r, O, C)
  BY <1>2, <1>3 DEF NoneLost, Owned
<1> HIDE DEF c, r, S, O, C
<1>. QED BY <1>1, <1>3, <1>6, <1>8, <1>9, HearCensus

\* Settlers who arrive in the central world are all admitted.
LEMMA AllAdmitted ==
  ASSUME NEW a \in Accounts, NEW S \in SUBSET Settlers, NEW G \in SUBSET Settlers, Cardinality(Owned(a, S)) + Cardinality(G) <= GroupCap
  PROVE  Admitted(a, S, G) = G
<1> DEFINE n == Cardinality(Owned(a, S))
           room == IF n < GroupCap THEN GroupCap - n ELSE 0
<1>1. IsFiniteSet(Owned(a, S)) /\ IsFiniteSet(G) /\ GroupCap \in Nat
  BY ManagerAssumption, FS_Subset DEF Owned
<1>2. n \in Nat /\ Cardinality(G) \in Nat
  BY <1>1, FS_CardinalityType
<1> HIDE DEF n
<1>3. n + Cardinality(G) <= GroupCap
  BY DEF n
<1>4. room \in Nat /\ ~(room < Cardinality(G))
  BY <1>1, <1>2, <1>3
<1> HIDE DEF room
<1>5. Least(G, room) \subseteq G /\ Cardinality(Least(G, room)) = Cardinality(G)
  BY <1>2, <1>4, LeastOf
<1>6. Least(G, room) = G
  BY <1>1, <1>5, FS_Subset
<1>. QED BY <1>6 DEF Admitted, room, n

\* Settlers who arrive are all let in, and no call has heard anything that would be wrong now.
LEMMA HearInject ==
  ASSUME Calm, NEW t, NEW m, Takes(t, m, thread[t].people \cup Admitted(Me(m.from), thread[t].people, m.arg)),
         m.kind = "inject", call' = call
  PROVE  Census'
<1> DEFINE c == m.from
           S == thread[t].people
           people == S \cup Admitted(Me(c), S, m.arg)
<1>1. Alone /\ Letters /\ Sent /\ Informed /\ Everyone /\ Always /\ Told /\ stopping = "no"
  BY DEF Calm, Census
<1>2. OnlyTo(m)
  BY DEF OnlyTo
<1>3. Passed(m) /\ In(thread[t].inbox, m) /\ UNCHANGED entry /\ Lived(t, people) /\ t \in Threads
  BY <1>2, Heard DEF Takes
<1>4. thread[t].st = "up"
  BY Zenon DEF Takes, Handle
<1>5. c \in Conns /\ Rightly(m, thread[t].key) /\ Underway(m, PeopleOf(Me(c)), PeopleOf(Central))
  BY <1>1, <1>3, InMessage DEF Always, Lettered, Threads, Sent
<1>6. thread[t].key = Central /\ m.arg \subseteq Born[Me(c)] /\ S = PeopleOf(Central)
  BY <1>1, <1>3, <1>4, <1>5, OneHome DEF Rightly
<1>7. people = S \cup m.arg
  <2>1. Me(c) \in Accounts /\ S \subseteq Settlers /\ m.arg \subseteq Settlers
    BY <1>5, <1>6, TwoWorlds, ManagerAssumption DEF Fits
  <2>2. Cardinality(Owned(Me(c), S)) + Cardinality(m.arg) <= GroupCap
    BY <1>5, <1>6 DEF Underway
  <2>. QED BY <2>1, <2>2, AllAdmitted
<1> HIDE DEF people, S
<1>8. PeopleOf(Central)' = PeopleOf(Central) \cup m.arg /\ \A a \in Accounts : PeopleOf(a)' = PeopleOf(a)
  BY <1>3, <1>5, <1>6, <1>7, TwoWorlds DEF Lived
<1>9. /\ Letters' /\ Threads' = Threads
      /\ \A u \in Threads : \A x : In(thread'[u].inbox, x) => x.kind # "inject"
      /\ \A u \in Threads : \A x : In(thread[u].inbox, x) => In(thread'[u].inbox, x) \/ x = m
  BY <1>3 DEF Passed
<1>10. Alone'
  BY <1>1, <1>3 DEF Alone
<1>11. Sent'
  BY <1>9 DEF Sent
<1>12. Informed'
  <2> SUFFICES ASSUME NEW d \in Conns PROVE Fine(d, call[d], PeopleOf(Me(d)), PeopleOf(Central))'
    BY DEF Informed
  <2>1. ~Clear(call[d]) /\ Hand(call[d]) = {}
    BY <1>1, <1>5 DEF Underway, Informed, Fine
  <2>2. Fine(d, call'[d], PeopleOf(Me(d))', PeopleOf(Central)')
    BY <2>1, FineIdle
  <2>. QED BY <2>2 DEF Fine
<1>13. ASSUME NEW a \in Accounts PROVE (PeopleOf(a) \cap PeopleOf(Central) = {})'
  <2>1. PeopleOf(a) \cap PeopleOf(Central) = {} /\ PeopleOf(a) \subseteq Born[a]
    BY <1>1, OneHome DEF Everyone, Fits, Keys
  <2>2. CASE a = Me(c)
    BY <1>5, <1>8, <2>1, <2>2 DEF Underway
  <2>3. CASE a # Me(c)
    <3>1. Born[a] \cap Born[Me(c)] = {}
      BY <1>5, <2>3, TwoWorlds
    <3>. QED BY <1>6, <1>8, <2>1, <3>1
  <2>. QED BY <2>2, <2>3
<1>14. ASSUME NEW a \in Accounts, NEW s \in Born[a] PROVE Somewhere(a, s)'
  <2>1. Somewhere(a, s)
    BY <1>1 DEF Everyone
  <2>2. CASE s \in PeopleOf(a) \/ s \in PeopleOf(Central) \/ s \in m.arg
    BY <1>8, <2>2 DEF Somewhere
  <2>3. CASE \E d \in Conns : s \in Hand(call[d])
    BY <2>3 DEF Somewhere
  <2>4. ASSUME NEW u \in Threads, NEW x, In(thread[u].inbox, x), x.kind = "inject", s \in x.arg PROVE Somewhere(a, s)'
    BY <1>9, <2>2, <2>4 DEF Somewhere
  <2>. QED BY <2>1, <2>2, <2>3, <2>4 DEF Somewhere
<1>15. Everyone'
  BY <1>13, <1>14 DEF Everyone
<1>. QED BY <1>9, <1>10, <1>11, <1>12, <1>15 DEF Census

\* Whatever is heard.
LEMMA HandleCensus == ASSUME Calm, NEW t \in Threads, Handle(t) PROVE Census'
<1> DEFINE m == Head(thread[t].inbox)
           S == thread[t].people
<1>1. Always
  BY DEF Calm
<1> HIDE DEF m, S
<1>2. PICK people, guests :
              /\ thread' = [thread EXCEPT ![t] = Hearing(t, people, guests)]
              /\ \/ /\ m.kind = "join" /\ people = S /\ guests = thread[t].guests \cup {m.from}
                    /\ call' = Reply(m, Answer({}))
                 \/ /\ m.kind = "count" /\ people = S /\ guests = thread[t].guests
                    /\ call' = Reply(m, Answer(Cardinality(Owned(Me(m.from), S))))
                 \/ /\ m.kind = "extract" /\ people = S /\ guests = thread[t].guests
                    /\ call' = Reply(m, Ungraduated)
                 \/ /\ m.kind = "extract" /\ guests = thread[t].guests
                    /\ \E gone \in SUBSET S : /\ Cardinality(gone) = MayLeave(S, m.arg) /\ people = S \ gone
                                              /\ call' = Reply(m, Answer(gone))
                 \/ /\ m.kind = "inject" /\ people = S \cup Admitted(Me(m.from), S, m.arg) /\ guests = thread[t].guests
                    /\ UNCHANGED call
                 \/ /\ m.kind = "settlers" /\ people = S \ Born[Me(m.from)] /\ guests = thread[t].guests
                    /\ call' = Reply(m, Answer(Owned(Me(m.from), S)))
                 \/ /\ m.kind = "returnees" /\ guests = thread[t].guests
                    /\ \E n \in 0..Smaller(Room(S), Cardinality(m.arg)) :
                         call' = Reply(m, Answer(n)) /\ people = S \cup Least(m.arg, n)
  BY ZenonT(60), <1>1, HandleIs DEF m, S
<1>3. Takes(t, m, people)
  <2>1. \E g : thread' = [thread EXCEPT ![t] = Hearing(t, people, g)]
    BY <1>2, Zenon
  <2>. QED BY <2>1, Zenon DEF Takes, m
<1>4. CASE m.kind = "join" /\ people = S /\ call' = Reply(m, Answer({}))
  BY <1>3, <1>4, HearJoin DEF S
<1>5. CASE m.kind = "count" /\ people = S /\ call' = Reply(m, Answer(Cardinality(Owned(Me(m.from), S))))
  BY <1>3, <1>5, HearCount DEF S
<1>6. CASE m.kind = "extract" /\ people = S /\ call' = Reply(m, Ungraduated)
  BY <1>3, <1>6, HearRefusal DEF S
<1>7. CASE m.kind = "extract" /\ \E gone \in SUBSET S : /\ Cardinality(gone) = MayLeave(S, m.arg) /\ people = S \ gone
                                                       /\ call' = Reply(m, Answer(gone))
  <2>1. PICK gone \in SUBSET S : /\ Cardinality(gone) = MayLeave(S, m.arg) /\ people = S \ gone
                                 /\ call' = Reply(m, Answer(gone))
    BY <1>7
  <2>2. Takes(t, m, S \ gone)
    BY <1>3, <2>1
  <2>. QED BY <1>7, <2>1, <2>2, HearExtract DEF S
<1>8. CASE m.kind = "inject" /\ people = S \cup Admitted(Me(m.from), S, m.arg) /\ call' = call
  BY <1>3, <1>8, HearInject DEF S
<1>9. CASE m.kind = "settlers" /\ people = S \ Born[Me(m.from)] /\ call' = Reply(m, Answer(Owned(Me(m.from), S)))
  BY <1>3, <1>9, HearSettlers DEF S
<1>10. CASE m.kind = "returnees" /\ \E n : call' = Reply(m, Answer(n)) /\ people = S \cup Least(m.arg, n)
  <2>1. PICK n : call' = Reply(m, Answer(n)) /\ people = S \cup Least(m.arg, n)
    BY <1>10
  <2>2. Takes(t, m, S \cup Least(m.arg, n))
    BY <1>3, <2>1
  <2>. QED BY <1>10, <2>1, <2>2, HearReturnees DEF S
<1>. QED BY <1>2, <1>4, <1>5, <1>6, <1>7, <1>8, <1>9, <1>10

-----------------------------------------------------------------------------
(* To the end *)

\* Nobody moves and no mail does.
LEMMA StillCensus ==
  ASSUME Calm, \A k : PeopleOf(k)' = PeopleOf(k), Threads' = Threads, UNCHANGED <<call, entry>>,
         \A t \in Threads : thread'[t].inbox = thread[t].inbox
  PROVE  Census'
<1>1. Alone /\ Letters /\ Sent /\ Informed /\ Everyone
  BY DEF Calm, Census
<1>2. Alone' /\ Letters'
  BY <1>1 DEF Alone, Letters
<1>3. \A c : PeopleOf(Me(c))' = PeopleOf(Me(c))
  BY DEF Me
<1>4. Sent'
  <2> SUFFICES ASSUME NEW t \in Threads, NEW m, In(thread[t].inbox, m), m.kind = "inject"
               PROVE  Underway(m, PeopleOf(Me(m.from)), PeopleOf(Central))'
    BY DEF Sent
  <2>1. Underway(m, PeopleOf(Me(m.from)), PeopleOf(Central))
    BY <1>1 DEF Sent
  <2>. QED BY <1>3, <2>1 DEF Underway
<1>5. Informed'
  <2> SUFFICES ASSUME NEW d \in Conns PROVE Fine(d, call[d], PeopleOf(Me(d)), PeopleOf(Central))'
    BY DEF Informed
  <2>1. Fine(d, call[d], PeopleOf(Me(d)), PeopleOf(Central))
    BY <1>1 DEF Informed
  <2>. QED BY <1>3, <2>1 DEF Fine
<1>6. Everyone'
  <2> SUFFICES ASSUME NEW a \in Accounts PROVE (PeopleOf(a) \cap PeopleOf(Central) = {})' /\ \A s \in Born[a] : Somewhere(a, s)'
    BY DEF Everyone
  <2>1. PeopleOf(a) \cap PeopleOf(Central) = {} /\ \A s \in Born[a] : Somewhere(a, s)
    BY <1>1 DEF Everyone
  <2>. QED BY <2>1 DEF Somewhere
<1>. QED BY <1>2, <1>4, <1>5, <1>6 DEF Census

\* A thread that starts has the people of the save.
LEMMA BootUpCensus == ASSUME Calm, NEW t \in Threads, BootUp(t) PROVE Census'
<1>1. Always /\ Told /\ stopping = "no" /\ thread[t].st = "boot" /\ UNCHANGED <<call, entry, file>>
  BY DEF Calm, BootUp
<1>2. thread \in Seq(Thread) /\ thread[t] \in Thread
  BY <1>1 DEF Always, Shape, Threads
<1>3. /\ Threads' = Threads /\ thread'[t].st = "up" /\ thread'[t].people = file[thread[t].key]
      /\ \A u \in Threads : /\ thread'[u].key = thread[u].key /\ thread'[u].inbox = thread[u].inbox
                            /\ u # t => thread'[u] = thread[u]
  BY <1>2 DEF BootUp, Threads, Thread
<1>4. \A u \in Threads : thread[u].key = thread[t].key => u = t
  BY <1>1, OneHome
<1>5. ASSUME NEW k PROVE PeopleOf(k)' = PeopleOf(k)
  <2>1. CASE k = thread[t].key
    <3>1. Running(k)' = {t} /\ Running(k) = {}
      BY <1>1, <1>3, <1>4, <2>1 DEF Running
    <3>2. {thread'[u].people : u \in Running(k)'} = {file[k]}
      BY <1>3, <2>1, <3>1
    <3>3. UNION {file[k]} = file[k]
      OBVIOUS
    <3>. QED BY <1>1, <3>1, <3>2, <3>3 DEF PeopleOf
  <2>2. CASE k # thread[t].key
    <3>1. Running(k)' = Running(k) /\ \A u \in Running(k) : thread'[u] = thread[u]
      BY <1>3, <2>2 DEF Running
    <3>2. {thread'[u].people : u \in Running(k)'} = {thread[u].people : u \in Running(k)}
      BY <3>1
    <3>. QED BY <1>1, <3>1, <3>2 DEF PeopleOf
  <2>. QED BY <2>1, <2>2
<1>. QED BY <1>1, <1>3, <1>5, StillCensus

\* A client asks to go somewhere: its call knows nothing yet.
LEMMA BeginCensus ==
  ASSUME Calm, Always', NEW c \in Conns, NEW goal \in {"login", "central", "home"}, Begin(c, goal)
  PROVE  Census'
<1> DEFINE r == [Outside EXCEPT !.goal = goal, !.seq = call[c].seq, !.at = IF goal = "login" THEN "own" ELSE "lock"]
<1>1. /\ UNCHANGED <<file, entry>> /\ thread' = [t \in Threads |-> [thread[t] EXCEPT !.guests = thread[t].guests \ {c}]]
      /\ Turns(c, r) /\ call[c].at \in {"out", "in"}
  BY DEF Begin, Turns
<1>2. Always /\ Letters
  BY DEF Calm, Census
<1>3. \A t \in Threads : /\ thread'[t].key = thread[t].key /\ thread'[t].people = thread[t].people
                         /\ thread'[t].st = thread[t].st /\ thread'[t].inbox = thread[t].inbox
  BY <1>1, <1>2, Itself DEF Threads, Thread
<1>4. Threads' = Threads
  <2>1. thread \in Seq(Thread) /\ Len(thread) \in Nat
    BY <1>2 DEF Always, Shape
  <2>2. Len(thread') = Len(thread)
    BY <1>1, <2>1 DEF Threads
  <2>. QED BY <2>2 DEF Threads
<1>5. r \in Call
  BY <1>1, <1>2, TurnedCall
<1>6. r.goal = goal /\ r.at = IF goal = "login" THEN "own" ELSE "lock"
  BY DEF Outside
<1> HIDE DEF r
<1>7. Purposeful(r) /\ ~Trip(r) /\ ~Clear(r) /\ Hand(r) = {}
  BY <1>6 DEF Purposeful, Trip, Clear, Hand, LoginPlaces, CentralPlaces, HomePlaces
<1>8. Hand(call[c]) = {} /\ Free(call[c])
  BY <1>1 DEF Hand, Free, WaitingPlaces
<1>9. \A k : PeopleOf(k)' = PeopleOf(k)
  BY <1>1, <1>3, <1>4, SamePeople
<1>10. \A t \in Threads' : Sorted(thread'[t].inbox)
  BY <1>2, <1>3, <1>4 DEF Letters
<1>11. Fine(c, r, PeopleOf(Me(c)), PeopleOf(Central))
  BY <1>7, FineIdle
<1>. QED BY <1>1, <1>3, <1>4, <1>5, <1>7, <1>8, <1>9, <1>10, <1>11, StepCensus

\* No world closes while nothing is disturbed.
LEMMA LivesCensus == ASSUME Calm, NEW t \in Threads, Lives(t) PROVE Census'
<1>1. thread[t].st \in {"boot", "up"} /\ ~thread[t].flag
  BY DEF Calm, Told, OneThreadEach
<1>2. ~MayIdle
  <2>1. case.idles = 0
    BY DEF Calm, Undisturbed
  <2>2. {u \in Threads : thread[u].st \in {"leaving", "closed", "ended"}} = {}
    BY DEF Calm, Told, OneThreadEach
  <2>3. Cardinality({}) = 0
    BY FS_EmptySet
  <2>4. Cardinality({u \in Threads : thread[u].st \in {"leaving", "closed", "ended"}}) = 0
    BY <2>2, <2>3
  <2>. QED BY <2>1, <2>4 DEF MayIdle
<1>3. BootUp(t) \/ Handle(t)
  BY <1>1, <1>2 DEF Lives, ThreadStep, Quit, Close, EndThread
<1>. QED BY <1>3, BootUpCensus, HandleCensus

\* A call's step does not stop the process.
LEMMA CallsKeepStopping == ASSUME Shape, NEW c \in Conns, CallStep(c) PROVE UNCHANGED stopping
<1>1. Lock(c) => UNCHANGED stopping
  BY LockIs
<1>2. Own(c) => UNCHANGED stopping
  BY Zenon DEF Own, Quiet, Resolve
<1>3. JoinOwn(c) => UNCHANGED stopping
  BY JoinOwnIs
<1>4. Joining(c) => UNCHANGED stopping
  BY JoiningIs
<1>5. ForgetOwn(c) => UNCHANGED stopping
  BY ForgetOwnIs
<1>6. OwnAgain(c) => UNCHANGED stopping
  BY Zenon DEF OwnAgain, Quiet
<1>7. Cen(c) => UNCHANGED stopping
  BY Zenon DEF Cen, Resolve
<1>8. Count(c) => UNCHANGED stopping
  BY CountIs
<1>9. Counting(c) => UNCHANGED stopping
  BY Zenon DEF Counting, Quiet
<1>10. Stale(c) => UNCHANGED stopping
  BY Zenon DEF Stale
<1>11. Recheck(c) => UNCHANGED stopping
  BY Zenon DEF Recheck, Resolve
<1>12. Extract(c) => UNCHANGED stopping
  BY ExtractIs
<1>13. Extracting(c) => UNCHANGED stopping
  BY Zenon DEF Extracting, Quiet
<1>14. Inject(c) => UNCHANGED stopping
  BY Zenon DEF Inject
<1>15. Enter(c) => UNCHANGED stopping
  BY EnterIs
<1>16. Entering(c) => UNCHANGED stopping
  BY EnteringIs
<1>17. Find(c) => UNCHANGED stopping
  BY Zenon DEF Find, Quiet
<1>18. Fetch(c) => UNCHANGED stopping
  BY FetchIs
<1>19. Fetching(c) => UNCHANGED stopping
  BY Zenon DEF Fetching, Quiet
<1>20. Settle(c) => UNCHANGED stopping
  BY SettleIs
<1>21. Settling(c) => UNCHANGED stopping
  BY Zenon DEF Settling, Quiet
<1>22. PutBack(c) => UNCHANGED stopping
  BY Zenon DEF PutBack
<1>. QED BY <1>1, <1>2, <1>3, <1>4, <1>5, <1>6, <1>7, <1>8, <1>9, <1>10, <1>11, <1>12, <1>13, <1>14, <1>15, <1>16, <1>17,
          <1>18, <1>19, <1>20, <1>21, <1>22 DEF CallStep

\* What is so of everybody while nothing is disturbed.
Counted == Always /\ (Undisturbed => Told) /\ (Undisturbed /\ stopping = "no" => Census)

\* Undisturbed, whoever a trip takes from a world is in a message, an answer or
\* a call's hands until another world has them, fits in when they arrive, and
\* is in no world meanwhile.
THEOREM TripsKeepEveryone == Spec => []Counted
<1>1. Init => Counted
  <2> SUFFICES ASSUME Init PROVE Census /\ ToldToo
    BY DEF Counted, ToldToo
  <2>0. ToldToo
    <3>1. Threads = {} /\ stopping = "no" /\ \A c \in Conns : call[c].at = "out"
      BY DEF Init, Threads, Outside
    <3>2. Told
      BY <3>1 DEF Told, OneThreadEach, AskedThere, GivesUpRightly, ToldIsFound, WaitingPlaces
    <3>. QED BY <3>2, AtFirst DEF ToldToo
  <2>1. /\ Threads = {} /\ call = [c \in Conns |-> Outside]
        /\ file = [k \in Keys |-> IF k = Central THEN {} ELSE Born[k]]
    BY DEF Init, Threads
  <2>2. Outside.at = "out" /\ Outside.goal = "none" /\ Hand(Outside) = {} /\ ~Clear(Outside)
    BY DEF Outside, Hand, Clear
  <2>3. Alone /\ Letters /\ Sent
    BY <2>1, <2>2 DEF Alone, Letters, Sent, Purposeful, Trip
  <2>4. Informed
    BY <2>1, <2>2, FineIdle DEF Informed
  <2>5. PeopleOf(Central) = {} /\ \A a \in Accounts : PeopleOf(a) = Born[a]
    BY <2>1, ManagerAssumption DEF PeopleOf, Running, Keys
  <2>6. Everyone
    BY <2>5 DEF Everyone, Somewhere
  <2>. QED BY <2>0, <2>3, <2>4, <2>6 DEF Census
<1>2. Counted /\ ToldToo' /\ [Next]_vars => Counted'
  <2> SUFFICES ASSUME Counted, ToldToo', [Next]_vars, Undisturbed', stopping' = "no" PROVE Census'
    BY DEF Counted, ToldToo
  <2>1. Always /\ Always' /\ UNCHANGED case
    BY NextKeeps DEF Counted
  <2>2. Undisturbed
    BY <2>1 DEF Undisturbed
  <2>3. stopping = "no" => Calm
    BY <2>2 DEF Counted, Calm
  <2>4. CASE \E c \in Conns : \E goal \in {"login", "central", "home"} : Begin(c, goal) /\ UNCHANGED case
    <3>1. PICK c \in Conns, goal \in {"login", "central", "home"} : Begin(c, goal)
      BY <2>4
    <3>2. UNCHANGED stopping
      BY <3>1, Zenon DEF Begin
    <3>. QED BY <2>1, <2>3, <3>1, <3>2, BeginCensus
  <2>5. CASE \E c \in Conns : Calls(c)
    <3>1. PICK c \in Conns : CallStep(c)
      BY <2>5 DEF Calls
    <3>2. Shape /\ UNCHANGED stopping
      BY <2>1, <3>1, CallsKeepStopping DEF Always
    <3>. QED BY <2>1, <2>3, <3>1, <3>2, CallsCensus
  <2>6. CASE \E t \in Threads : Lives(t)
    <3>1. PICK t \in Threads : Lives(t)
      BY <2>6
    <3>2. UNCHANGED stopping
      <4>1. BootUp(t) \/ Handle(t) \/ Quit(t) \/ Close(t) \/ EndThread(t)
        BY <3>1, Zenon DEF Lives, ThreadStep
      <4>2. Handle(t) => UNCHANGED stopping
        BY Zenon DEF Handle
      <4>3. Close(t) => UNCHANGED stopping
        BY Zenon DEF Close
      <4>. QED BY <4>1, <4>2, <4>3 DEF BootUp, Quit, EndThread
    <3>. QED BY <2>3, <3>1, <3>2, LivesCensus
  <2>7. CASE StopAll \/ JoinsAll \/ Exits
    BY <2>7 DEF StopAll, JoinsAll, Exits, JoinAll, MainReturns
  <2>8. CASE UNCHANGED vars
    <3>1. Calm
      BY <2>3, <2>8 DEF vars
    <3>2. \A k : PeopleOf(k)' = PeopleOf(k)
      BY <2>8 DEF vars, PeopleOf, Running, Threads
    <3>. QED BY <2>8, <3>1, <3>2, StillCensus DEF vars, Threads
  <2>. QED BY <2>4, <2>5, <2>6, <2>7, <2>8 DEF Next
<1>. QED BY <1>1, <1>2, ThreadsAccountedFor, PTL DEF Spec

\* Everybody is in some world or on the way to one, and nobody in two, however
\* the trips of an account's devices interleave, as long as no wait runs out,
\* no world idles out under them and the process is not being stopped.
THEOREM EachAlwaysInOneWorld == Spec => []EachInOneWorld
<1>1. Counted => EachInOneWorld
  <2> SUFFICES ASSUME Counted, Undisturbed, stopping = "no"
               PROVE  /\ UNION {Born[a] : a \in Accounts} \subseteq Accounted
                      /\ \A k, j \in Keys : k # j => PeopleOf(k) \cap PeopleOf(j) = {}
    BY DEF EachInOneWorld
  <2>1. Always /\ Told /\ Everyone
    BY DEF Counted, Census
  <2>2. ASSUME NEW a \in Accounts, NEW s \in Born[a] PROVE s \in Accounted
    <3>1. Somewhere(a, s) /\ a \in Keys /\ Central \in Keys
      BY <2>1 DEF Everyone, Keys
    <3>2. CASE s \in PeopleOf(a) \/ s \in PeopleOf(Central)
      BY <3>1, <3>2 DEF Accounted
    <3>3. ASSUME NEW c \in Conns, s \in Hand(call[c]) PROVE s \in Accounted
      <4>1. s \in call[c].held \/ (call[c].at \in {"extracting", "fetching"} /\ Answered(c) /\ s \in call[c].ans.value)
        BY <3>3 DEF Hand, Leftover, Answered
      <4>2. s \in call[c].held => s \in Travelling
        BY Zenon DEF Travelling
      <4>3. call[c].at \in {"extracting", "fetching"} /\ Answered(c) /\ s \in call[c].ans.value => s \in Travelling
        BY Zenon DEF Travelling
      <4>4. s \in Travelling
        BY <4>1, <4>2, <4>3
      <4>. QED BY <4>4, Zenon DEF Accounted
    <3>4. ASSUME NEW t \in Threads, NEW m, In(thread[t].inbox, m), m.kind = "inject", s \in m.arg PROVE s \in Accounted
      <4>1. thread[t].inbox \in Seq(Message)
        <5>1. thread[t] \in Thread
          BY <2>1 DEF Always, Shape, Threads
        <5>. QED BY <5>1 DEF Thread
      <4>2. m \in Range(thread[t].inbox)
        BY <3>4, <4>1 DEF In, Range
      <4>3. s \in UNION {x.arg : x \in {n \in Range(thread[t].inbox) : n.kind \in {"inject", "returnees"}}}
        BY <3>4, <4>2
      <4>4. s \in Travelling
        BY <4>3, Zenon DEF Travelling
      <4>. QED BY <4>4, Zenon DEF Accounted
    <3>. QED BY <3>1, <3>2, <3>3, <3>4 DEF Somewhere
  <2>3. ASSUME NEW k \in Keys, NEW j \in Keys, k # j PROVE PeopleOf(k) \cap PeopleOf(j) = {}
    <3>1. \A a \in Accounts : PeopleOf(a) \subseteq Born[a] /\ PeopleOf(a) \cap PeopleOf(Central) = {}
      BY <2>1, OneHome DEF Fits, Keys, Everyone
    <3>2. CASE k \in Accounts /\ j \in Accounts
      BY <2>3, <3>1, <3>2, ManagerAssumption
    <3>3. CASE k = Central \/ j = Central
      BY <2>3, <3>1, <3>3 DEF Keys
    <3>. QED BY <3>2, <3>3 DEF Keys
  <2>. QED BY <2>2, <2>3
<1>. QED BY <1>1, TripsKeepEveryone, PTL

=============================================================================
