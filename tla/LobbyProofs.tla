------------------------------ MODULE LobbyProofs ------------------------------
(***************************************************************************)
(* Visits and invitations, proved for every number of accounts, devices and *)
(* worlds.  visit_friend forgets at each step what it saw at the one        *)
(* before, so the invariant says, step by step, what must have been seen on *)
(* the way there (Good): invited from the first, and before it joins either *)
(* the host at home or an allowance to come without them.  Of invitations   *)
(* it says that one still in the mail has been shown nowhere (Shown).       *)
(***************************************************************************)
EXTENDS Lobby, FiniteSetTheorems, TLAPS

\* What an account needs to be in another's world.
Right(d) == "invited" \in seen[d] /\ seen[d] \cap {"host", "policy"} # {}

\* What is known of a device's visit by the step it is at, and of the place it is in.
Good(d) ==
  /\ call[d] # Idle => at[d] = Out /\ call[d].host \in Accounts /\ "invited" \in seen[d]
  /\ call[d].step \in {"find", "asking"} /\ call[d].offline => "policy" \in seen[d]
  /\ call[d].step = "spawning" => "policy" \in seen[d]
  /\ call[d].step \in {"joining", "waiting"} => seen[d] \cap {"host", "policy"} # {}
  /\ at[d] \in Accounts \cup {Central, Out}
  /\ at[d] \in Accounts \ {AccountOf[d]} => Right(d)

\* An invitation in the mail has been shown nowhere, and one that has been shown was shown in one place.
Shown ==
  /\ mail \subseteq DOMAIN invitation
  /\ \E k \in Nat : DOMAIN invitation = 1..k
  /\ \A x \in heard : x[1] \in DOMAIN invitation /\ x[1] \notin mail
  /\ OnePopup

Lodged ==
  /\ DOMAIN call = Devices /\ DOMAIN at = Devices /\ DOMAIN seen = Devices
  /\ \A d \in Devices : Good(d)

\* Whoever has not moved keeps what is known of him.
LEMMA Unmoved ==
  ASSUME Lodged, Witness, NEW d \in Devices, call'[d] = call[d], at'[d] = at[d]
  PROVE  Good(d)'
<1>1. seen'[d] = IF call'[d] = Idle /\ at'[d] = Out THEN {} ELSE seen[d] \cup Facts(d)'
  BY DEF Witness
<1>2. Good(d) BY DEF Lodged
<1>3. CASE call[d] = Idle /\ at[d] = Out
  <2>1. Out \notin Accounts BY LobbyAssumption DEF LobbyAssumption
  <2> QED BY <1>3, <2>1 DEF Good, Idle
<1>4. CASE ~(call[d] = Idle /\ at[d] = Out)
  <2>1. seen[d] \subseteq seen'[d] BY <1>1, <1>4
  <2> QED BY <1>2, <2>1 DEF Good, Right
<1> QED BY <1>3, <1>4

\* One device goes on with its visit, or gives it up, staying where it is.
LEMMA GoingGoes ==
  ASSUME Lodged, Witness, NEW d \in Devices, NEW c, Going(d, c), call[d] # Idle, Good(d)'
  PROVE  Lodged'
<1>1. DOMAIN call' = Devices /\ DOMAIN at' = Devices /\ DOMAIN seen' = Devices
  BY DEF Lodged, Going, Witness
<1>2. ASSUME NEW e \in Devices, e # d PROVE Good(e)'
  <2>1. call'[e] = call[e] /\ at'[e] = at[e] BY <1>2 DEF Going, Lodged
  <2> QED BY <2>1, Unmoved
<1> QED BY <1>1, <1>2 DEF Lodged

\* A visit given up leaves the device in no world.
LEMMA RefusedGoes ==
  ASSUME Lodged, Witness, NEW d \in Devices, Refused(d), call[d] # Idle
  PROVE  Lodged'
<1>1. call'[d] = Idle /\ at'[d] = at[d] BY DEF Refused, Going, Lodged
<1>2. at[d] = Out BY DEF Lodged, Good
<1>3. Out \notin Accounts BY LobbyAssumption DEF LobbyAssumption
<1>4. Good(d)' BY <1>1, <1>2, <1>3 DEF Good, Idle
<1> QED BY <1>4, GoingGoes DEF Refused

\* Being in no world, in the central one and in an account's are three different things.
LEMMA OutIs == Out \notin Accounts /\ Out # Central /\ Central \notin Accounts
BY LobbyAssumption DEF LobbyAssumption

\* A visit goes on to a step all that it must know has been seen for.
LEMMA GoesOn ==
  ASSUME Lodged, Witness, NEW d \in Devices, NEW c, Going(d, c), call[d] # Idle, c # Idle,
         c.host = call[d].host,
         c.step \in {"find", "asking"} /\ c.offline => "policy" \in seen'[d],
         c.step = "spawning" => "policy" \in seen'[d],
         c.step \in {"joining", "waiting"} => seen'[d] \cap {"host", "policy"} # {}
  PROVE  Lodged'
<1>1. call'[d] = c /\ at'[d] = at[d] BY DEF Going, Lodged
<1>2. seen[d] \subseteq seen'[d] BY <1>1 DEF Witness
<1>3. at[d] = Out /\ "invited" \in seen[d] /\ c.host \in Accounts BY DEF Lodged, Good
<1>4. Good(d)' BY <1>1, <1>2, <1>3, OutIs DEF Good
<1> QED BY <1>4, GoingGoes

\* What is so after a step of a visit is remembered of it.
LEMMA Remembered ==
  ASSUME Lodged, Witness, NEW d \in Devices, NEW c, Going(d, c), c # Idle
  PROVE  /\ seen[d] \subseteq seen'[d]
         /\ <<c.host, AccountOf[d]>> \in book => "invited" \in seen'[d]
         /\ Present(c.host, c.host) => "host" \in seen'[d]
         /\ c.host \in policy => "policy" \in seen'[d]
<1>1. call'[d] = c /\ at' = at /\ book' = book /\ policy' = policy BY DEF Going, Lodged
<1>2. seen'[d] = seen[d] \cup Facts(d)' BY <1>1 DEF Witness
<1>3. Facts(d)' = (IF <<c.host, AccountOf[d]>> \in book THEN {"invited"} ELSE {})
           \cup (IF Present(c.host, c.host) THEN {"host"} ELSE {})
           \cup (IF c.host \in policy THEN {"policy"} ELSE {})
  BY <1>1 DEF Facts, Present
<1> QED BY <1>2, <1>3

\* A visit starts on an invitation in the book.
LEMMA VisitGoes ==
  ASSUME Lodged, Witness, NEW d \in Devices, NEW h \in Hosts, Visit(d, h)
  PROVE  Lodged'
<1> DEFINE c == [step |-> "policy", host |-> h]
<1>1. /\ Going(d, c)
      /\ call[d] = Idle
      /\ at[d] = Out
      /\ <<h, AccountOf[d]>> \in book BY DEF Visit, Free
<1>2. c # Idle /\ c.host = h /\ c.step = "policy" /\ h \in Accounts
  BY LobbyAssumption DEF Idle, LobbyAssumption
<1> HIDE DEF c
<1>3. "invited" \in seen'[d] BY <1>1, <1>2, Remembered
<1>4. call'[d] = c /\ at' = at BY <1>1 DEF Going, Lodged
<1>5. Good(d)' BY <1>1, <1>2, <1>3, <1>4, OutIs DEF Good
<1>6. DOMAIN call' = Devices /\ DOMAIN at' = Devices /\ DOMAIN seen' = Devices
  BY <1>1 DEF Lodged, Going, Witness
<1>7. ASSUME NEW e \in Devices, e # d PROVE Good(e)'
  <2>1. call'[e] = call[e] /\ at'[e] = at[e] BY <1>1, <1>7 DEF Going, Lodged
  <2> QED BY <2>1, Unmoved
<1> QED BY <1>5, <1>6, <1>7 DEF Lodged

\* Each look of visit_friend is remembered by the next step, to the joining of the host's world.
LEMMA VisitStepGoes ==
  ASSUME Lodged, Witness, NEW d \in Devices, VisitStep(d)
  PROVE  Lodged'
<1>1. call[d] # Idle BY DEF VisitStep, ReadPolicy, Find, Answer, Unanswered, Spawn, NoRoom, Join,
                                      TakenIn, Dropped, Idle
<1>0. Good(d) BY DEF Lodged
<1>2. CASE ReadPolicy(d)
  <2>1. call[d].step = "policy" BY <1>2 DEF ReadPolicy
  <2>2. PICK allowed \in {call[d].host \in policy, FALSE} :
          Going(d, [step |-> "find", host |-> call[d].host, offline |-> allowed])
    BY <1>2 DEF ReadPolicy
  <2> DEFINE c == [step |-> "find", host |-> call[d].host, offline |-> allowed]
  <2>3. c # Idle /\ c.step = "find" /\ c.host = call[d].host /\ (c.offline => call[d].host \in policy)
    BY <2>2 DEF Idle
  <2> HIDE DEF c
  <2>4. c.offline => "policy" \in seen'[d] BY <2>2, <2>3, Remembered DEF c
  <2> QED BY <1>1, <2>2, <2>3, <2>4, GoesOn DEF c
<1>3. CASE Find(d)
  <2>1. call[d].step = "find" /\ (call[d].offline => "policy" \in seen[d]) BY <1>0, <1>3 DEF Find, Good
  <2>2. CASE Refused(d) BY <1>1, <2>2, RefusedGoes
  <2>3. CASE Going(d, [step |-> "asking", host |-> call[d].host, offline |-> call[d].offline,
                       boot |-> worlds[call[d].host].boot])
    <3> DEFINE c == [step |-> "asking", host |-> call[d].host, offline |-> call[d].offline,
                     boot |-> worlds[call[d].host].boot]
    <3>1. c # Idle /\ c.host = call[d].host /\ c.step = "asking" /\ (c.offline => call[d].offline) BY DEF Idle
    <3> HIDE DEF c
    <3>2. Going(d, c) BY <2>3 DEF c
    <3>3. seen[d] \subseteq seen'[d] BY <3>1, <3>2, Remembered
    <3> QED BY <1>1, <2>1, <3>1, <3>2, <3>3, GoesOn
  <2>4. CASE call[d].offline /\ Going(d, [step |-> "spawning", host |-> call[d].host])
    <3> DEFINE c == [step |-> "spawning", host |-> call[d].host]
    <3>1. c # Idle /\ c.host = call[d].host /\ c.step = "spawning" BY DEF Idle
    <3> HIDE DEF c
    <3>2. Going(d, c) BY <2>4 DEF c
    <3>3. seen[d] \subseteq seen'[d] BY <3>1, <3>2, Remembered
    <3> QED BY <1>1, <2>1, <2>4, <3>1, <3>2, <3>3, GoesOn
  <2> QED BY <1>3, <2>2, <2>3, <2>4 DEF Find
<1>4. CASE Answer(d)
  <2>1. call[d].step = "asking" /\ (call[d].offline => "policy" \in seen[d]) BY <1>0, <1>4 DEF Answer, Good
  <2>2. CASE Refused(d) BY <1>1, <2>2, RefusedGoes
  <2>3. CASE /\ Present(call[d].host, call[d].host) \/ call[d].offline
             /\ Going(d, [step |-> "joining", host |-> call[d].host, boot |-> call[d].boot])
    <3> DEFINE c == [step |-> "joining", host |-> call[d].host, boot |-> call[d].boot]
    <3>1. c # Idle /\ c.step = "joining" /\ c.host = call[d].host BY DEF Idle
    <3> HIDE DEF c
    <3>2. Going(d, c) BY <2>3 DEF c
    <3>3. seen[d] \subseteq seen'[d] /\ (Present(call[d].host, call[d].host) => "host" \in seen'[d])
      BY <3>1, <3>2, Remembered
    <3>4. seen'[d] \cap {"host", "policy"} # {} BY <2>1, <2>3, <3>3
    <3> QED BY <1>1, <3>1, <3>2, <3>4, GoesOn
  <2> QED BY <1>4, <2>2, <2>3 DEF Answer, Admits
<1>5. CASE Unanswered(d) BY <1>1, <1>5, RefusedGoes DEF Unanswered
<1>6. CASE NoRoom(d) BY <1>1, <1>6, RefusedGoes DEF NoRoom
<1>7. CASE Spawn(d)
  <2> DEFINE c == [step |-> "joining", host |-> call[d].host, boot |-> Spawned(call[d].host)[call[d].host].boot]
  <2>1. c # Idle /\ c.step = "joining" /\ c.host = call[d].host BY DEF Idle
  <2>2. call' = [call EXCEPT ![d] = c] /\ at' = at BY <1>7 DEF Spawn
  <2> HIDE DEF c
  <2>3. "policy" \in seen[d] /\ at[d] = Out /\ "invited" \in seen[d] /\ call[d].host \in Accounts
    BY <1>0, <1>1, <1>7 DEF Spawn, Good
  <2>4. call'[d] = c BY <2>2 DEF Lodged
  <2>5. seen[d] \subseteq seen'[d] BY <2>1, <2>4 DEF Witness
  <2>6. Good(d)' BY <2>1, <2>2, <2>3, <2>4, <2>5, OutIs DEF Good
  <2>7. DOMAIN call' = Devices /\ DOMAIN at' = Devices /\ DOMAIN seen' = Devices
    BY <2>2 DEF Lodged, Witness
  <2>8. ASSUME NEW e \in Devices, e # d PROVE Good(e)'
    <3>1. call'[e] = call[e] /\ at'[e] = at[e] BY <2>2, <2>8 DEF Lodged
    <3> QED BY <3>1, Unmoved
  <2> QED BY <2>6, <2>7, <2>8 DEF Lodged
<1>8. CASE Join(d)
  <2>1. CASE Refused(d) BY <1>1, <2>1, RefusedGoes
  <2>2. CASE Going(d, [step |-> "waiting", host |-> call[d].host, boot |-> call[d].boot])
    <3> DEFINE c == [step |-> "waiting", host |-> call[d].host, boot |-> call[d].boot]
    <3>1. c # Idle /\ c.step = "waiting" /\ c.host = call[d].host BY DEF Idle
    <3> HIDE DEF c
    <3>2. Going(d, c) BY <2>2 DEF c
    <3>3. seen[d] \cap {"host", "policy"} # {} BY <1>0, <1>8 DEF Join, Good
    <3>4. seen[d] \subseteq seen'[d] BY <3>1, <3>2, Remembered
    <3>5. seen'[d] \cap {"host", "policy"} # {} BY <3>3, <3>4
    <3> QED BY <1>1, <3>1, <3>2, <3>5, GoesOn
  <2> QED BY <1>8, <2>1, <2>2 DEF Join
<1>9. CASE Dropped(d) BY <1>1, <1>9, RefusedGoes DEF Dropped
<1>10. CASE TakenIn(d)
  <2>1. at' = [at EXCEPT ![d] = call[d].host] /\ call' = [call EXCEPT ![d] = Idle] BY <1>10 DEF TakenIn
  <2>2. at'[d] = call[d].host /\ call'[d] = Idle BY <2>1 DEF Lodged
  <2>3. /\ call[d].host \in Accounts /\ "invited" \in seen[d]
        /\ seen[d] \cap {"host", "policy"} # {}
    BY <1>0, <1>1, <1>10 DEF Good, TakenIn
  <2>4. at'[d] # Out BY <2>2, <2>3, OutIs
  <2>5. seen[d] \subseteq seen'[d] BY <2>4 DEF Witness
  <2>6. Good(d)' BY <2>2, <2>3, <2>5 DEF Good, Right, Idle
  <2>7. DOMAIN call' = Devices /\ DOMAIN at' = Devices /\ DOMAIN seen' = Devices
    BY <2>1 DEF Lodged, Witness
  <2>8. ASSUME NEW e \in Devices, e # d PROVE Good(e)'
    <3>1. call'[e] = call[e] /\ at'[e] = at[e] BY <2>1, <2>8 DEF Lodged
    <3> QED BY <3>1, Unmoved
  <2> QED BY <2>6, <2>7, <2>8 DEF Lodged
<1> QED BY <1>2, <1>3, <1>4, <1>5, <1>6, <1>7, <1>8, <1>9, <1>10 DEF VisitStep

\* A device that takes part in no visit goes home, to the central world or out.
LEMMA PlacedGoes ==
  ASSUME Lodged, Witness, NEW d \in Devices, call[d] = Idle, UNCHANGED call,
         NEW w \in {AccountOf[d], Central, Out}, at' = [at EXCEPT ![d] = w]
  PROVE  Lodged'
<1>1. call'[d] = Idle /\ at'[d] = w BY DEF Lodged
<1>2. AccountOf[d] \in Accounts BY LobbyAssumption DEF LobbyAssumption
<1>3. Good(d)' BY <1>1, <1>2, OutIs DEF Good, Idle
<1>4. DOMAIN call' = Devices /\ DOMAIN at' = Devices /\ DOMAIN seen' = Devices
  BY DEF Lodged, Witness
<1>5. ASSUME NEW e \in Devices, e # d PROVE Good(e)'
  <2>1. call'[e] = call[e] /\ at'[e] = at[e] BY <1>5 DEF Lodged
  <2> QED BY <2>1, Unmoved
<1> QED BY <1>3, <1>4, <1>5 DEF Lodged

\* What is done to worlds, invitations and policies moves no device.
LEMMA StillGoes == ASSUME Lodged, Witness, UNCHANGED <<at, call>> PROVE Lodged'
<1>1. DOMAIN call' = Devices /\ DOMAIN at' = Devices /\ DOMAIN seen' = Devices
  BY DEF Lodged, Witness
<1>2. ASSUME NEW e \in Devices PROVE Good(e)' BY <1>2, Unmoved
<1> QED BY <1>1, <1>2 DEF Lodged

\* Every step keeps what is known of every device.
LEMMA LodgedNext == ASSUME Lodged, Next PROVE Lodged'
<1>1. Witness /\ Step BY DEF Next
<1>2. ASSUME NEW d \in Devices, Login(d) \/ Register(d) \/ EnterCentral(d) PROVE Lodged'
  <2>1. call[d] = Idle /\ UNCHANGED call BY <1>2 DEF Login, Register, EnterCentral, Free
  <2>2. \E w \in {AccountOf[d], Central, Out} : at' = [at EXCEPT ![d] = w]
    BY <1>2 DEF Login, Register, EnterCentral, Home
  <2> QED BY <1>1, <2>1, <2>2, PlacedGoes
<1>3. ASSUME NEW d \in Devices, Leave(d) PROVE Lodged'
  <2>1. call[d] = Idle /\ UNCHANGED call BY <1>3 DEF Leave, Lodged, Good
  <2> QED BY <1>1, <1>3, <2>1, PlacedGoes DEF Leave
<1>4. ASSUME NEW d \in Devices, VisitStep(d) PROVE Lodged'
  BY <1>1, <1>4, VisitStepGoes
<1>5. ASSUME NEW d \in Devices, NEW a \in Accounts, Invite(d, a) PROVE Lodged'
  BY <1>1, <1>5, StillGoes DEF Invite
<1>6. ASSUME NEW d \in Devices, NEW h \in Hosts, Visit(d, h) PROVE Lodged'
  BY <1>1, <1>6, VisitGoes
<1>7. ASSUME NEW d \in Devices, NEW allow \in BOOLEAN, SetVisitPolicy(d, allow) PROVE Lodged'
  BY <1>1, <1>7, StillGoes DEF SetVisitPolicy
<1>8. ASSUME NEW h \in Hosts, Evict(h) \/ Drop(h) \/ Wedge(h) PROVE Lodged'
  BY <1>1, <1>8, StillGoes DEF Evict, Drop, Wedge
<1>9. ASSUME NEW n \in DOMAIN invitation, Deliver(n) PROVE Lodged'
  BY <1>1, <1>9, StillGoes DEF Deliver
<1>10. ASSUME NEW pair \in book, Expire(pair) PROVE Lodged'
  BY <1>1, <1>10, StillGoes DEF Expire
<1>11. ASSUME Write PROVE Lodged'
  BY <1>1, <1>11, StillGoes DEF Write
<1> QED BY <1>1, <1>2, <1>3, <1>4, <1>5, <1>6, <1>7, <1>8, <1>9, <1>10, <1>11 DEF Step

\* Whoever is in another's world was invited, and found the host at home or was allowed to come
\* without them, at some moment of the visit (world_manager.rs, visit_friend), however the looks
\* interleave with hosts leaving, policies changing and worlds idling out.
THEOREM GuestsByRight == Spec => []AdmittedByRight
<1>1. Init => Lodged
  BY OutIs DEF Init, Lodged, Good, Idle
<1>2. Lodged /\ UNCHANGED vars => Lodged'
  BY DEF vars, Lodged, Good, Right
<1>3. Lodged /\ [Next]_vars => Lodged'
  BY <1>2, LodgedNext
<1>4. Lodged => AdmittedByRight
  BY DEF Lodged, Good, Right, AdmittedByRight
<1> QED BY <1>1, <1>3, <1>4, PTL DEF Spec

-----------------------------------------------------------------------------
(* Invitations *)

\* An invitation is told once: at once in the central world, or by mail to one place.
LEMMA ShownNext == ASSUME Shown, Next PROVE Shown'
<1>1. ASSUME NEW d \in Devices, NEW guest \in Accounts, Invite(d, guest) PROVE Shown'
  <2>1. PICK k \in Nat : DOMAIN invitation = 1..k BY DEF Shown
  <2> DEFINE n == Cardinality(DOMAIN invitation) + 1
  <2>2. n = k + 1
    <3>1. Cardinality(1..k) = IF 1 > k THEN 0 ELSE k - 1 + 1 BY <2>1, FS_Interval
    <3>2. Cardinality(1..k) = k BY <3>1
    <3> QED BY <2>1, <3>2
  <2>3. DOMAIN invitation' = 1..(k + 1)
    BY <1>1, <2>2 DEF Invite
  <2>4. /\ n \notin DOMAIN invitation
        /\ n \in DOMAIN invitation'
        /\ DOMAIN invitation \subseteq DOMAIN invitation'
    BY <2>1, <2>2, <2>3
  <2>5. Told(AccountOf[d], guest, n) BY <1>1 DEF Invite
  <2> HIDE DEF n
  <2>6. CASE /\ heard' = heard \cup
                  {<<n, e, Central>> : e \in {e \in Devices : at[e] = Central /\ AccountOf[e] = guest}}
             /\ mail' = mail
    <3>1. ASSUME NEW x \in heard' PROVE x \in heard \/ (x[1] = n /\ x[3] = Central) BY <2>6
    <3>2. \A x \in heard' : x[1] \in DOMAIN invitation' /\ x[1] \notin mail' BY <2>4, <2>6, <3>1 DEF Shown
    <3>3. OnePopup' BY <2>4, <3>1 DEF Shown, OnePopup
    <3> QED BY <2>3, <2>4, <2>6, <3>2, <3>3 DEF Shown
  <2>7. CASE mail' \subseteq mail \cup {n} /\ heard' = heard
    BY <2>3, <2>4, <2>7 DEF Shown, OnePopup
  <2> QED BY <2>5, <2>6, <2>7 DEF Told
<1>2. ASSUME NEW m \in DOMAIN invitation, Deliver(m) PROVE Shown'
  <2>1. m \in mail /\ mail' = mail \ {m} /\ invitation' = invitation BY <1>2 DEF Deliver
  <2>2. ASSUME NEW x \in heard' PROVE x \in heard \/ (x[1] = m /\ x[3] = invitation[m][2])
    BY <1>2, <2>2 DEF Deliver
  <2>3. \A x \in heard' : x[1] \in DOMAIN invitation /\ x[1] \notin mail' BY <2>1, <2>2 DEF Shown
  <2>4. OnePopup' BY <2>1, <2>2 DEF Shown, OnePopup
  <2> QED BY <2>1, <2>3, <2>4 DEF Shown
<1>3. CASE mail' \subseteq mail /\ UNCHANGED <<invitation, heard>>
  BY <1>3 DEF Shown, OnePopup
<1>4. ASSUME NEW d \in Devices, Login(d) \/ Register(d) \/ EnterCentral(d) \/ Leave(d) \/ VisitStep(d)
      PROVE  mail' \subseteq mail /\ UNCHANGED <<invitation, heard>>
  <2>1. ASSUME NEW c, Going(d, c) PROVE mail' \subseteq mail /\ UNCHANGED <<invitation, heard>>
    BY <2>1 DEF Going
  <2> QED BY <1>4, <2>1 DEF Login, Register, EnterCentral, Leave, VisitStep, ReadPolicy, Find, Answer,
                            Unanswered, Spawn, NoRoom, Join, TakenIn, Dropped, Refused
<1>5. ASSUME NEW d \in Devices, NEW h \in Hosts, Visit(d, h)
      PROVE  mail' \subseteq mail /\ UNCHANGED <<invitation, heard>>
  BY <1>5 DEF Visit, Going
<1>6. ASSUME NEW d \in Devices, NEW allow \in BOOLEAN, SetVisitPolicy(d, allow)
      PROVE  mail' \subseteq mail /\ UNCHANGED <<invitation, heard>>
  BY <1>6 DEF SetVisitPolicy
<1>7. ASSUME NEW h \in Hosts, Evict(h) \/ Drop(h) \/ Wedge(h)
      PROVE  mail' \subseteq mail /\ UNCHANGED <<invitation, heard>>
  BY <1>7 DEF Evict, Drop, Wedge
<1>8. ASSUME NEW pair \in book, Expire(pair) PROVE mail' \subseteq mail /\ UNCHANGED <<invitation, heard>>
  BY <1>8 DEF Expire
<1>9. ASSUME Write PROVE mail' \subseteq mail /\ UNCHANGED <<invitation, heard>>
  BY <1>9 DEF Write
<1> QED BY <1>1, <1>2, <1>3, <1>4, <1>5, <1>6, <1>7, <1>8, <1>9 DEF Next, Step

\* One invitation pops up in one world only, wherever its guest goes (simloop.rs, DeliverServerMsg).
THEOREM PopupsOnce == Spec => []OnePopup
<1>1. Init => Shown
  <2> SUFFICES ASSUME Init PROVE Shown OBVIOUS
  <2>1. DOMAIN invitation = 1..0 BY DEF Init
  <2> QED BY <2>1 DEF Init, Shown, OnePopup
<1>2. Shown /\ [Next]_vars => Shown'
  BY ShownNext DEF vars, Shown, OnePopup
<1>3. Shown => OnePopup BY DEF Shown
<1> QED BY <1>1, <1>2, <1>3, PTL DEF Spec
===============================================================================
