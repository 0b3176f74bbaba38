---------------------------- MODULE SessionsProofs ----------------------------
(***************************************************************************)
(* The connections of a world, proved for every number of them: first who a *)
(* connection is (Sessions), then that nothing is lost on its line (Wire).   *)
(*                                                                         *)
(* IDENTITY AND AUTHORITY of one world's sim_loop, for every number of      *)
(* connections, accounts, sessions and restarts.  IInv strengthens the      *)
(* checked invariants with three facts the code never states: ids come      *)
(* in increasing order, so a fresh id is nobody's; in the central           *)
(* world not even a saved session carries the Owner role; and a stopped     *)
(* process keeps nothing in memory.  What a session outlives needs two      *)
(* facts more: Store (the order the store keeps holds every stored token    *)
(* once, never more than MAX_SESSIONS of them) and TokensOut (a token in    *)
(* flight belongs to one connection and is not in the store yet).           *)
(***************************************************************************)
EXTENDS Sessions, Wire, TLAPS, SequenceTheorems, FiniteSetTheorems

FreshIds ==
  /\ next_player_id >= 1 /\ next_client_id >= 1
  /\ \A c \in clients : c < next_client_id /\ 0 < player_of[c] /\ player_of[c] < next_player_id
  /\ \A t \in DOMAIN sessions : 0 < sessions[t].id /\ sessions[t].id < next_player_id
  /\ \A p \in kicked : p < next_player_id
  /\ reaping \subseteq clients

NoCentralOwner ==
  Central => /\ \A t \in DOMAIN sessions : sessions[t].role = Guest
             /\ disk.owner_id = 0

DownIsEmpty ==
  ~up => clients = {} /\ reaping = {} /\ kicked = {} /\ DOMAIN sessions = {}

IInv ==
  /\ DownIsEmpty
  /\ TypeOK
  /\ RosterMatchesConnections
  /\ OneIdentityPerPlayer
  /\ KickedStaysOut
  /\ AuthorityRule
  /\ FreshIds
  /\ NoCentralOwner

-----------------------------------------------------------------------------
(* Helper operators *)

\* Dropping a token keeps the order a token sequence.
LEMMA DropTokenType ==
  ASSUME NEW s \in Seq(Nat), NEW e
  PROVE  DropToken(s, e) \in Seq(Nat)
<1>1. CASE ~\E i \in 1..Len(s) : s[i] = e
  BY <1>1 DEF DropToken
<1>2. CASE \E i \in 1..Len(s) : s[i] = e
  <2> DEFINE k == CHOOSE i \in 1..Len(s) : s[i] = e
  <2>1. k \in 1..Len(s)
    BY <1>2
  <2>2. DropToken(s, e) = SubSeq(s, 1, k - 1) \o SubSeq(s, k + 1, Len(s))
    BY <1>2 DEF DropToken, RemoveAt
  <2>3. SubSeq(s, 1, k - 1) \in Seq(Nat) /\ SubSeq(s, k + 1, Len(s)) \in Seq(Nat)
    <3> HIDE DEF k
    <3>1. /\ k - 1 \in Int /\ k + 1 \in Int /\ Len(s) \in Int
          /\ \A i \in 1..(k - 1) : s[i] \in Nat
          /\ \A i \in (k + 1)..Len(s) : s[i] \in Nat
      BY <2>1
    <3> QED
      BY <3>1, SubSeqProperties
  <2> QED
    BY <2>2, <2>3, ConcatProperties
<1> QED
  BY <1>1, <1>2


\* Dropping a prefix, too.
LEMMA SuffixType ==
  ASSUME NEW s \in Seq(Nat), NEW n \in 0..Len(s)
  PROVE  SubSeq(s, n + 1, Len(s)) \in Seq(Nat)
<1>1. /\ n + 1 \in Int /\ Len(s) \in Int
      /\ \A i \in (n + 1)..Len(s) : s[i] \in Nat
  OBVIOUS
<1> QED
  BY <1>1, SubSeqProperties

-----------------------------------------------------------------------------
(* What the invariant says of the roster *)

\* A roster entry is the entry of its slot's connection.
LEMMA EntryOfConnection ==
  ASSUME IInv, NEW e \in roster
  PROVE  e.slot \in clients /\ e.id = player_of[e.slot]
BY DEF IInv, RosterMatchesConnections

\* Two entries with one id are one entry.
LEMMA EntryUnique ==
  ASSUME IInv, NEW e \in roster, NEW f \in roster, e.id = f.id
  PROVE  e = f
<1>1. e.slot = f.slot
  BY EntryOfConnection DEF IInv, OneIdentityPerPlayer
<1> QED
  BY <1>1 DEF IInv, RosterMatchesConnections

\* The first entry with an id on the roster is the only one.
LEMMA FirstEntry ==
  ASSUME IInv, NEW e \in roster
  PROVE  EntriesOf(roster, e.id) = {e} /\ First(roster, e.id) = e
<1>1. EntriesOf(roster, e.id) = {e}
  BY EntryUnique DEF EntriesOf
<1>2. e.slot <= e.slot
  BY DEF IInv, TypeOK, Entry
<1> QED
  BY <1>1, <1>2 DEF First

\* state.player of a live connection's player is its own entry.
LEMMA EntryOfClient ==
  ASSUME IInv, NEW c \in clients
  PROVE  /\ First(roster, player_of[c]) \in roster
         /\ First(roster, player_of[c]).slot = c
         /\ First(roster, player_of[c]).id = player_of[c]
         /\ EntriesOf(roster, player_of[c]) = {First(roster, player_of[c])}
<1>1. PICK e \in roster : e.slot = c /\ e.id = player_of[c]
  BY DEF IInv, RosterMatchesConnections
<1> QED
  BY <1>1, FirstEntry

-----------------------------------------------------------------------------
(* A departure *)

\* What disconnect() of a live connection does, whatever it evicts: the
\* connection, its maps and its one roster entry go; the store gains at most
\* the departing player, under the departing token.
LEMMA DisconnectShape ==
  ASSUME IInv, NEW c \in clients, Disconnect(c)
  PROVE  /\ clients' = clients \ {c} /\ limiters' = limiters \ {c}
         /\ player_of' \in [clients \ {c} -> Nat]
         /\ token_of' \in [clients \ {c} -> Nat]
         /\ \A d \in clients \ {c} : player_of'[d] = player_of[d] /\ token_of'[d] = token_of[d]
         /\ roster' = {e \in roster : e.id # player_of[c]}
         /\ DOMAIN sessions' \in SUBSET (DOMAIN sessions \cup {token_of[c]})
         /\ sessions' \in [DOMAIN sessions' -> Info]
         /\ \A t \in DOMAIN sessions' :
              sessions'[t] = IF t = token_of[c] THEN InfoOf(First(roster, player_of[c]))
                                                ELSE sessions[t]
         /\ session_order' \in Seq(Nat)
<1> DEFINE tok == token_of[c]
           info == InfoOf(First(roster, player_of[c]))
           kept == Put(sessions, tok, info)
           order == IF tok \in DOMAIN sessions THEN session_order
                                               ELSE Append(session_order, tok)
<1>1. /\ player_of \in [clients -> Nat] /\ token_of \in [clients -> Nat]
      /\ DOMAIN sessions \in SUBSET Nat
      /\ sessions \in [DOMAIN sessions -> Info]
      /\ session_order \in Seq(Nat)
      /\ roster \in SUBSET Entry
  BY DEF IInv, TypeOK, RosterMatchesConnections
<1>2. info \in Info
  <2>1. First(roster, player_of[c]) \in Entry
    BY <1>1, EntryOfClient
  <2> QED
    BY <2>1 DEF InfoOf, Entry, Info
<1>3. Stashable(c)
  BY <1>1, EntryOfClient DEF Stashable
<1>4. PICK n \in 0..Len(order) :
        /\ sessions' = Only(kept, DOMAIN kept \ ToSet(SubSeq(order, 1, n)))
        /\ session_order' = SubSeq(order, n + 1, Len(order))
  BY <1>3 DEF Disconnect, Stash
<1>5. /\ kept \in [DOMAIN sessions \cup {tok} -> Info]
      /\ kept[tok] = info
      /\ \A x \in DOMAIN sessions \ {tok} : kept[x] = sessions[x]
  <2> HIDE DEF info, tok
  <2> QED
    BY <1>1, <1>2 DEF Put
<1>6. /\ DOMAIN sessions' \in SUBSET (DOMAIN sessions \cup {tok})
      /\ sessions' \in [DOMAIN sessions' -> Info]
      /\ \A t \in DOMAIN sessions' :
           sessions'[t] = IF t = tok THEN info ELSE sessions[t]
  <2> DEFINE T == DOMAIN kept \ ToSet(SubSeq(order, 1, n))
  <2>1. T \in SUBSET (DOMAIN sessions \cup {tok})
    BY <1>5
  <2> HIDE DEF T
  <2>2. sessions' \in [T -> Info] /\ \A x \in T : sessions'[x] = kept[x]
    <3> HIDE DEF kept, order
    <3> QED
      BY <1>4, <1>5, <2>1 DEF T, Only, Restrict
  <2> QED
    BY <1>5, <2>1, <2>2
<1>7. session_order' \in Seq(Nat)
  <2>1. order \in Seq(Nat)
    BY <1>1, AppendProperties
  <2> HIDE DEF order
  <2> QED
    BY <1>4, <2>1, SuffixType
<1>8. /\ player_of' = Only(player_of, clients \ {c})
      /\ token_of' = Only(token_of, clients \ {c})
      /\ clients' = clients \ {c} /\ limiters' = limiters \ {c}
      /\ roster' = {e \in roster : e.id # player_of[c]}
  BY <1>1 DEF Disconnect, PlayerLeft, IInv, RosterMatchesConnections
<1>9. /\ player_of' \in [clients \ {c} -> Nat]
      /\ token_of' \in [clients \ {c} -> Nat]
      /\ \A d \in clients \ {c} : player_of'[d] = player_of[d] /\ token_of'[d] = token_of[d]
  BY <1>1, <1>8 DEF Only, Restrict
<1> QED
  BY <1>6, <1>7, <1>8, <1>9

\* A departure, with everything else a Leave and a Reap leave alone, keeps the
\* invariant.
LEMMA DisconnectPreserves ==
  ASSUME IInv, up, NEW c \in clients, Disconnect(c),
         reaping' \in SUBSET (reaping \ {c}),
         UNCHANGED <<up, life, next_client_id, next_player_id, pending,
                     owner_id, phase, disk, gone, next_token, history>>
  PROVE  IInv'
<1> DEFINE pid == player_of[c]
           tok == token_of[c]
           gone_entry == First(roster, pid)
<1>1. /\ clients' = clients \ {c} /\ limiters' = limiters \ {c}
      /\ player_of' \in [clients' -> Nat] /\ token_of' \in [clients' -> Nat]
      /\ \A d \in clients' : player_of'[d] = player_of[d] /\ token_of'[d] = token_of[d]
      /\ roster' = {e \in roster : e.id # pid}
      /\ DOMAIN sessions' \in SUBSET (DOMAIN sessions \cup {tok})
      /\ sessions' \in [DOMAIN sessions' -> Info]
      /\ \A t \in DOMAIN sessions' :
           sessions'[t] = IF t = tok THEN InfoOf(gone_entry) ELSE sessions[t]
      /\ session_order' \in Seq(Nat)
  BY DisconnectShape
<1>2. /\ gone_entry \in roster /\ gone_entry.id = pid /\ gone_entry.slot = c
      /\ InfoOf(gone_entry).id = pid
      /\ InfoOf(gone_entry).role = gone_entry.role
  BY EntryOfClient DEF InfoOf
<1> HIDE DEF gone_entry
<1>3. /\ tok \in Nat /\ pid \in Nat /\ 0 < pid /\ pid < next_player_id
      /\ player_of \in [clients -> Nat] /\ clients \in SUBSET Nat
      /\ DOMAIN sessions \in SUBSET Nat /\ roster \in SUBSET Entry
  BY DEF IInv, TypeOK, RosterMatchesConnections, FreshIds
<1>4. \A t \in DOMAIN sessions' :
        \/ t = tok /\ sessions'[t].id = pid /\ sessions'[t].role = gone_entry.role
        \/ t \in DOMAIN sessions /\ sessions'[t] = sessions[t]
  BY <1>1, <1>2
<1>5. TypeOK'
  BY <1>1, <1>3 DEF IInv, TypeOK, history
<1>6. RosterMatchesConnections'
  <2>1. \A d \in clients' : \E e \in roster' : e.slot = d /\ e.id = player_of'[d]
    <3> SUFFICES ASSUME NEW d \in clients' PROVE \E e \in roster' : e.slot = d /\ e.id = player_of'[d]
      OBVIOUS
    <3>1. d \in clients /\ d # c /\ player_of'[d] = player_of[d]
      BY <1>1
    <3>2. PICK e \in roster : e.slot = d /\ e.id = player_of[d]
      BY <3>1 DEF IInv, RosterMatchesConnections
    <3>3. e.id # pid
      BY <3>1, <3>2 DEF IInv, OneIdentityPerPlayer
    <3> QED
      BY <1>1, <3>1, <3>2, <3>3
  <2>2. \A e \in roster' : e.slot \in clients'
    BY <1>1, EntryOfConnection
  <2> QED
    BY <1>1, <2>1, <2>2 DEF IInv, RosterMatchesConnections
<1>7. OneIdentityPerPlayer'
  <2>1. \A t \in DOMAIN sessions, d \in clients : sessions[t].id # player_of[d]
    BY DEF IInv, OneIdentityPerPlayer
  <2>2. \A s, t \in DOMAIN sessions' : sessions'[s].id = sessions'[t].id => s = t
    BY <1>4, <2>1 DEF IInv, OneIdentityPerPlayer
  <2>3. \A d \in clients', t \in DOMAIN sessions' : sessions'[t].id # player_of'[d]
    BY <1>1, <1>4, <2>1 DEF IInv, OneIdentityPerPlayer
  <2>4. \A x, y \in clients' : player_of'[x] = player_of'[y] => x = y
    BY <1>1 DEF IInv, OneIdentityPerPlayer
  <2> QED
    BY <2>2, <2>3, <2>4 DEF OneIdentityPerPlayer
<1>8. KickedStaysOut'
  BY <1>1, <1>4 DEF IInv, KickedStaysOut, history
<1>9. AuthorityRule'
  BY <1>1, <1>2, <1>4 DEF IInv, AuthorityRule, CentralRule, PersonalRule, SharedRule, OwnersAmong
<1>10. FreshIds'
  BY <1>1, <1>3, <1>4 DEF IInv, FreshIds, history
<1>11. NoCentralOwner'
  <2>1. Central => gone_entry.role = Guest
    BY <1>2, <1>3 DEF IInv, AuthorityRule, CentralRule, OwnersAmong, Entry
  <2> QED
    BY <1>4, <2>1 DEF IInv, NoCentralOwner
<1> QED
  BY <1>5, <1>6, <1>7, <1>8, <1>9, <1>10, <1>11 DEF IInv, DownIsEmpty

-----------------------------------------------------------------------------
(* A join *)

\* Where the player id of a join comes from: from the session its token names,
\* which is then used up, or from the counter; either way it is nobody's on
\* the roster and in no remaining session, and was never kicked.
LEMMA JoinIdIsFree ==
  ASSUME IInv, NEW tok, NEW pid,
         pid = IF tok \in DOMAIN sessions THEN sessions[tok].id ELSE next_player_id
  PROVE  /\ pid \in Nat /\ 0 < pid
         /\ pid < (IF tok \in DOMAIN sessions THEN next_player_id ELSE next_player_id + 1)
         /\ \A c \in clients : player_of[c] # pid
         /\ \A e \in roster : e.id # pid
         /\ \A t \in DOMAIN sessions \ {tok} : sessions[t].id # pid
<1>1. /\ next_player_id \in Nat /\ next_player_id >= 1
      /\ sessions \in [DOMAIN sessions -> Info]
      /\ player_of \in [clients -> Nat]
      /\ \A t \in DOMAIN sessions : sessions[t].id \in Nat
  BY DEF IInv, TypeOK, FreshIds, RosterMatchesConnections, Info
<1>2. \A c \in clients : player_of[c] # pid
  BY <1>1 DEF IInv, FreshIds, OneIdentityPerPlayer
<1>3. \A e \in roster : e.id # pid
  BY <1>2, EntryOfConnection
<1> QED
  BY <1>1, <1>2, <1>3 DEF IInv, FreshIds, OneIdentityPerPlayer

\* A join keeps the invariant.
LEMMA JoinPreserves ==
  ASSUME IInv, NEW tok \in 0..(next_token - 1), NEW acc \in AnyAccount, Join(tok, acc)
  PROVE  IInv'
<1> DEFINE back == tok \in DOMAIN sessions
           c == next_client_id
           pid == IF back THEN sessions[tok].id ELSE next_player_id
           accnt == IF back /\ acc = NoAccount THEN sessions[tok].account ELSE acc
           role == JoinRole(back, tok, pid, acc)
           entry == [slot |-> c, id |-> pid, role |-> role, account |-> accnt]
<1>1. /\ next_client_id \in Nat /\ next_player_id \in Nat /\ next_token \in Nat
      /\ next_player_id >= 1 /\ next_client_id >= 1
      /\ DOMAIN sessions \in SUBSET Nat
      /\ sessions \in [DOMAIN sessions -> Info]
      /\ session_order \in Seq(Nat)
      /\ roster \in SUBSET Entry /\ owner_id \in Nat
      /\ clients \in SUBSET Nat
      /\ player_of \in [clients -> Nat] /\ token_of \in [clients -> Nat]
      /\ reaping \in SUBSET clients
  BY DEF IInv, TypeOK, RosterMatchesConnections, FreshIds
<1>2. /\ c \in Nat /\ c \notin clients
      /\ \A d \in clients : d < c
      /\ \A e \in roster : e.slot # c
  BY <1>1, EntryOfConnection DEF IInv, FreshIds
<1>3. /\ pid \in Nat /\ 0 < pid
      /\ pid < (IF back THEN next_player_id ELSE next_player_id + 1)
      /\ \A d \in clients : player_of[d] # pid
      /\ \A e \in roster : e.id # pid
      /\ \A t \in DOMAIN sessions \ {tok} : sessions[t].id # pid
  <2> HIDE DEF pid
  <2> QED
    BY JoinIdIsFree DEF pid
<1>4. back => /\ sessions[tok].account \in AnyAccount
              /\ sessions[tok].role \in {Owner, Guest}
              /\ sessions[tok].id = pid
  BY <1>1 DEF Info
<1>5. accnt \in AnyAccount /\ role \in {Owner, Guest}
  <2> HIDE DEF pid
  <2> QED
    BY <1>4 DEF JoinRole
<1> HIDE DEF accnt, role, pid, back
<1>6. entry \in Entry /\ entry.slot = c /\ entry.id = pid /\ entry.role = role /\ entry.account = accnt
  BY <1>2, <1>3, <1>5 DEF Entry
<1>7. /\ roster' = roster \cup {entry}
      /\ clients' = clients \cup {c} /\ limiters' = limiters \cup {c}
      /\ next_client_id' = c + 1
      /\ next_player_id' = IF back THEN next_player_id ELSE next_player_id + 1
      /\ next_token' = next_token + 1
      /\ owner_id' = JoinOwnerId(back, pid, acc)
      /\ reaping = {}
      /\ UNCHANGED <<up, life, pending, reaping, phase, disk, gone, ghost_command, kicked>>
  BY DEF Join, Draining, accnt, role, pid, back
<1> HIDE DEF entry
<1>8. /\ player_of' \in [clients' -> Nat] /\ player_of'[c] = pid
      /\ \A d \in clients : player_of'[d] = player_of[d]
      /\ token_of' \in [clients' -> Nat]
  BY <1>1, <1>2, <1>3, <1>7 DEF Join, Put, pid, back
<1>9. /\ DOMAIN sessions' = DOMAIN sessions \ {tok}
      /\ sessions' \in [DOMAIN sessions' -> Info]
      /\ \A t \in DOMAIN sessions' : sessions'[t] = sessions[t]
  BY <1>1 DEF Join, TakeSession, Only, Restrict
<1>10. session_order' \in Seq(Nat)
  BY <1>1, DropTokenType DEF Join
<1>11. owner_id' \in Nat
  BY <1>1, <1>3, <1>7 DEF JoinOwnerId
<1>12. TypeOK'
  <2>1. /\ clients' \in SUBSET Nat /\ limiters' \in SUBSET Nat
        /\ DOMAIN player_of' \in SUBSET Nat /\ player_of' \in [DOMAIN player_of' -> Nat]
        /\ DOMAIN token_of' \in SUBSET Nat /\ token_of' \in [DOMAIN token_of' -> Nat]
        /\ DOMAIN sessions' \in SUBSET Nat /\ sessions' \in [DOMAIN sessions' -> Info]
    BY <1>1, <1>2, <1>7, <1>8, <1>9 DEF IInv, TypeOK
  <2>2. roster' \in SUBSET Entry
    BY <1>1, <1>6, <1>7
  <2>3. next_client_id' \in Nat /\ next_player_id' \in Nat /\ next_token' \in Nat
    BY <1>1, <1>7
  <2> QED
    BY <1>7, <1>10, <1>11, <2>1, <2>2, <2>3 DEF IInv, TypeOK
<1>13. RosterMatchesConnections'
  <2>1. \A d \in clients' : \E e \in roster' : e.slot = d /\ e.id = player_of'[d]
    <3> SUFFICES ASSUME NEW d \in clients'
                 PROVE  \E e \in roster' : e.slot = d /\ e.id = player_of'[d]
      OBVIOUS
    <3>1. CASE d = c
      BY <3>1, <1>6, <1>7, <1>8
    <3>2. CASE d \in clients
      BY <3>2, <1>7, <1>8 DEF IInv, RosterMatchesConnections
    <3> QED
      BY <3>1, <3>2, <1>7
  <2>2. \A e \in roster' : e.slot \in clients'
    BY <1>6, <1>7, EntryOfConnection
  <2>3. \A e, f \in roster' : e.slot = f.slot => e = f
    BY <1>2, <1>6, <1>7 DEF IInv, RosterMatchesConnections
  <2> QED
    BY <1>7, <1>8, <2>1, <2>2, <2>3 DEF IInv, RosterMatchesConnections
<1>14. OneIdentityPerPlayer'
  <2>1. \A x, y \in clients' : player_of'[x] = player_of'[y] => x = y
    BY <1>3, <1>7, <1>8 DEF IInv, OneIdentityPerPlayer
  <2>2. \A s, t \in DOMAIN sessions' : sessions'[s].id = sessions'[t].id => s = t
    BY <1>9 DEF IInv, OneIdentityPerPlayer
  <2>3. \A x \in clients', t \in DOMAIN sessions' : sessions'[t].id # player_of'[x]
    BY <1>3, <1>7, <1>8, <1>9 DEF IInv, OneIdentityPerPlayer
  <2> QED
    BY <2>1, <2>2, <2>3 DEF OneIdentityPerPlayer
<1>15. KickedStaysOut'
  <2>1. pid \notin kicked
    BY <1>1, <1>4 DEF IInv, KickedStaysOut, FreshIds, TypeOK, pid, back
  <2> QED
    BY <1>7, <1>8, <1>9, <2>1 DEF IInv, KickedStaysOut
<1>16. FreshIds'
  <2>1. next_player_id <= next_player_id' /\ pid < next_player_id' /\ next_player_id' \in Nat
    BY <1>1, <1>3, <1>7
  <2>2. \A d \in clients' : d < next_client_id' /\ 0 < player_of'[d] /\ player_of'[d] < next_player_id'
    <3>1. \A d \in clients : /\ d < next_client_id /\ 0 < player_of[d]
                             /\ player_of[d] < next_player_id /\ player_of[d] \in Nat
      BY <1>1 DEF IInv, FreshIds
    <3>2. \A d \in clients : d \in Nat /\ d < next_client_id'
      BY <1>1, <1>7, <3>1
    <3>3. \A d \in clients : 0 < player_of'[d] /\ player_of'[d] < next_player_id'
      BY <1>1, <1>8, <2>1, <3>1
    <3>4. c < next_client_id'
      BY <1>1, <1>7
    <3> QED
      BY <1>3, <1>7, <1>8, <2>1, <3>2, <3>3, <3>4
  <2>3. \A t \in DOMAIN sessions' : 0 < sessions'[t].id /\ sessions'[t].id < next_player_id'
    <3>1. \A t \in DOMAIN sessions : sessions[t].id \in Nat
      BY <1>1 DEF Info
    <3> QED
      BY <1>1, <1>9, <2>1, <3>1 DEF IInv, FreshIds
  <2>4. \A p \in kicked' : p < next_player_id'
    BY <1>1, <1>7, <2>1 DEF IInv, FreshIds, TypeOK
  <2> QED
    BY <1>1, <1>7, <2>1, <2>2, <2>3, <2>4 DEF FreshIds
<1>17. AuthorityRule'
  <2>1. CASE Central
    <3>1. OwnerAccount = NoAccount /\ owner_id = 0
      BY <2>1, SessionsAssumption DEF IInv, AuthorityRule, CentralRule
    <3>2. role = Guest /\ owner_id' = 0
      BY <2>1, <3>1, <1>7 DEF role, JoinRole, JoinOwnerId, ClaimsWorld, IInv, NoCentralOwner, back
    <3> QED
      BY <2>1, <3>1, <3>2, <1>6, <1>7 DEF IInv, AuthorityRule, CentralRule, OwnersAmong, Owner, Guest
  <2>2. CASE OwnerAccount # NoAccount
    <3>1. role = Owner => entry.account = OwnerAccount
      BY <2>2, <1>6 DEF role, JoinRole, accnt, Owner, Guest
    <3>2. pid = owner_id' => role = Owner
      <4>1. CASE acc = OwnerAccount
        BY <4>1, <2>2 DEF role, JoinRole
      <4>2. CASE acc # OwnerAccount
        <5> DEFINE claimed == IF ~back /\ ClaimsWorld(pid) THEN pid ELSE owner_id
        <5>1. owner_id' = IF claimed = pid THEN 0 ELSE claimed
          BY <4>2, <2>2, <1>7 DEF JoinOwnerId
        <5> HIDE DEF claimed
        <5>2. owner_id' # pid
          BY <5>1, <1>3
        <5> QED
          BY <5>2
      <4> QED
        BY <4>1, <4>2
    <3>3. \A e \in roster : e.id = owner_id' => e.id = owner_id
      <4>1. \A e \in roster : e.id # 0
        BY EntryOfConnection DEF IInv, FreshIds
      <4>2. owner_id' \in {0, pid, owner_id}
        BY <1>7 DEF JoinOwnerId
      <4> QED
        BY <4>1, <4>2, <1>3
    <3> QED
      BY <2>2, <3>1, <3>2, <3>3, <1>6, <1>7, SessionsAssumption
      DEF IInv, AuthorityRule, PersonalRule, OwnersAmong
  <2>3. CASE ~Central /\ OwnerAccount = NoAccount
    <3>1. SharedRule
      BY <2>3 DEF IInv, AuthorityRule
    <3>2. role = Owner <=> pid = owner_id'
      BY <2>3, <3>1, <1>3, <1>4, <1>7 DEF role, JoinRole, JoinOwnerId, ClaimsWorld, SharedRule, Owner, Guest, back
    <3>3. \A e \in roster : e.id = owner_id' <=> e.id = owner_id
      <4>1. \A e \in roster : e.id # 0
        BY EntryOfConnection DEF IInv, FreshIds
      <4> QED
        BY <4>1, <2>3, <1>3, <1>7 DEF JoinOwnerId, ClaimsWorld
    <3>4. \A t \in DOMAIN sessions' : sessions[t].id = owner_id' <=> sessions[t].id = owner_id
      <4>1. \A t \in DOMAIN sessions : sessions[t].id # 0
        BY DEF IInv, FreshIds
      <4> QED
        BY <4>1, <2>3, <1>3, <1>7, <1>9 DEF JoinOwnerId, ClaimsWorld
    <3>5. SharedRule'
      BY <3>1, <3>2, <3>3, <3>4, <1>6, <1>7, <1>9 DEF SharedRule
    <3> QED
      BY <2>3, <3>5 DEF AuthorityRule
  <2> QED
    BY <2>1, <2>2, <2>3
<1>18. NoCentralOwner'
  BY <1>7, <1>9 DEF IInv, NoCentralOwner
<1>19. up'
  BY <1>7 DEF Join, Draining
<1> QED
  BY <1>12, <1>13, <1>14, <1>15, <1>16, <1>17, <1>18, <1>19 DEF IInv, DownIsEmpty

-----------------------------------------------------------------------------
(* A kick *)

\* A kick keeps it: the target's connection and entry are one, and its id is in no session.
LEMMA KickPreserves ==
  ASSUME IInv, NEW c \in Nat, NEW target \in Nat, Kick(c, target)
  PROVE  IInv'
<1>1. /\ clients \in SUBSET Nat /\ roster \in SUBSET Entry
      /\ player_of \in [clients -> Nat] /\ token_of \in [clients -> Nat]
      /\ DOMAIN player_of = clients /\ DOMAIN token_of = clients
      /\ limiters = clients
  BY DEF IInv, TypeOK, RosterMatchesConnections
<1>2. PICK e \in roster : e.id = target
  BY DEF Kick, EntriesOf
<1>3. e.slot \in clients /\ player_of[e.slot] = target /\ First(roster, target) = e
  BY <1>2, EntryOfConnection, FirstEntry
<1>4. ServedBy(target) = {{e.slot}}
  BY <1>1, <1>3 DEF ServedBy, IInv, OneIdentityPerPlayer
<1>5. /\ clients' = clients \ {e.slot} /\ limiters' = limiters \ {e.slot}
      /\ player_of' \in [clients' -> Nat] /\ token_of' \in [clients' -> Nat]
      /\ \A d \in clients' : player_of'[d] = player_of[d]
      /\ roster' = roster \ {e}
      /\ kicked' = kicked \cup {target}
      /\ reaping = {}
      /\ UNCHANGED <<up, life, next_client_id, next_player_id, pending, reaping,
                     sessions, session_order, owner_id, phase, disk, gone,
                     next_token, ghost_command>>
  <2>1. /\ clients' = clients \ {e.slot} /\ limiters' = limiters \ {e.slot}
        /\ player_of' = Only(player_of, clients \ {e.slot})
        /\ token_of' = Only(token_of, clients \ {e.slot})
        /\ sessions' = sessions
    BY <1>1, <1>4 DEF Kick, KickSessions
  <2>2. /\ player_of' \in [clients' -> Nat] /\ token_of' \in [clients' -> Nat]
        /\ \A d \in clients' : player_of'[d] = player_of[d]
    BY <1>1, <2>1 DEF Only, Restrict
  <2> QED
    BY <1>3, <2>1, <2>2 DEF Kick, Draining
<1>6. TypeOK'
  BY <1>1, <1>5 DEF IInv, TypeOK
<1>7. RosterMatchesConnections'
  <2>1. \A d \in clients' : \E f \in roster' : f.slot = d /\ f.id = player_of'[d]
    BY <1>5 DEF IInv, RosterMatchesConnections
  <2>2. \A f \in roster' : f.slot \in clients'
    BY <1>1, <1>5, EntryOfConnection DEF IInv, RosterMatchesConnections
  <2> QED
    BY <1>1, <1>5, <2>1, <2>2 DEF IInv, RosterMatchesConnections
<1>8. OneIdentityPerPlayer'
  BY <1>5 DEF IInv, OneIdentityPerPlayer
<1>9. KickedStaysOut'
  <2>1. \A d \in clients' : player_of'[d] # target
    BY <1>3, <1>5 DEF IInv, OneIdentityPerPlayer
  <2>2. \A t \in DOMAIN sessions : sessions[t].id # target
    BY <1>3 DEF IInv, OneIdentityPerPlayer
  <2> QED
    BY <1>5, <2>1, <2>2 DEF IInv, KickedStaysOut
<1>10. AuthorityRule'
  BY <1>5 DEF IInv, AuthorityRule, CentralRule, PersonalRule, SharedRule, OwnersAmong
<1>11. FreshIds'
  <2>1. target < next_player_id
    BY <1>3 DEF IInv, FreshIds
  <2> QED
    BY <1>5, <2>1 DEF IInv, FreshIds
<1>12. NoCentralOwner'
  BY <1>5 DEF IInv, NoCentralOwner
<1>13. up'
  BY <1>5 DEF Kick, Draining
<1> QED
  BY <1>6, <1>7, <1>8, <1>9, <1>10, <1>11, <1>12, <1>13 DEF IInv, DownIsEmpty

-----------------------------------------------------------------------------
(* The steps that touch no connection *)

\* The empty map and the empty order have the types the loop starts them with.
LEMMA EmptyMaps ==
  /\ DOMAIN None = {}
  /\ \A S : None \in [{} -> S]
  /\ <<>> \in Seq(Nat)
<1>1. DOMAIN None = {}
  BY DEF None
<1>2. ASSUME NEW S PROVE None \in [{} -> S]
  <2>1. [x \in {} |-> 0] \in [{} -> S]
    OBVIOUS
  <2> QED
    BY <2>1 DEF None
<1>3. <<>> \in Seq(Nat)
  OBVIOUS
<1> QED
  BY <1>1, <1>2, <1>3

\* The locals a process starts with.
Blank ==
  /\ clients = {} /\ player_of = None /\ token_of = None /\ limiters = {}
  /\ sessions = None /\ session_order = <<>>
  /\ next_client_id = 1 /\ next_player_id = 1
  /\ pending = {} /\ reaping = {} /\ gone = {}
  /\ ghost_command = FALSE /\ kicked = {}
  /\ roster = {}

\* What lies outside those locals is sound.
SoundOutside ==
  /\ up \in BOOLEAN /\ life \in Nat /\ next_token \in Nat
  /\ owner_id \in Nat /\ phase \in {"Running", "Over"}
  /\ disk \in [owner_id : Nat, phase : {"Running", "Over"}, roster : SUBSET Entry]
  /\ Central => owner_id = 0 /\ disk.owner_id = 0

\* Blank locals satisfy every clause: there is nothing to relate.
LEMMA BlankIsSound == Blank /\ SoundOutside => IInv
<1> SUFFICES ASSUME Blank, SoundOutside PROVE IInv
  OBVIOUS
<1> USE DEF Blank, SoundOutside
<1>1. /\ DOMAIN player_of = {} /\ DOMAIN token_of = {} /\ DOMAIN sessions = {}
      /\ player_of \in [{} -> Nat] /\ token_of \in [{} -> Nat]
      /\ sessions \in [{} -> Info] /\ session_order \in Seq(Nat)
  BY EmptyMaps
<1>2. TypeOK
  BY <1>1 DEF TypeOK
<1>3. DownIsEmpty /\ RosterMatchesConnections /\ OneIdentityPerPlayer /\ KickedStaysOut
  BY <1>1 DEF DownIsEmpty, RosterMatchesConnections, OneIdentityPerPlayer, KickedStaysOut
<1>4. FreshIds /\ NoCentralOwner
  BY <1>1 DEF FreshIds, NoCentralOwner
<1>5. AuthorityRule
  BY <1>1 DEF AuthorityRule, CentralRule, PersonalRule, SharedRule, OwnersAmong
<1> QED
  BY <1>2, <1>3, <1>4, <1>5 DEF IInv

\* Init, the end of a process and a boot all leave blank locals.
LEMMA InitEstablishes == Init => IInv
<1> SUFFICES ASSUME Init PROVE IInv
  OBVIOUS
<1>1. disk \in [owner_id : Nat, phase : {"Running", "Over"}, roster : SUBSET Entry]
  BY DEF Init
<1> QED
  BY <1>1, BlankIsSound DEF Init, Blank, SoundOutside

\* What Saved writes is a save.
LEMMA SavedType ==
  ASSUME IInv
  PROVE  /\ Saved \in [owner_id : Nat, phase : {"Running", "Over"}, roster : SUBSET Entry]
         /\ Central => Saved.owner_id = 0
BY SessionsAssumption DEF IInv, TypeOK, Saved, AuthorityRule, CentralRule

\* The end of the process keeps the invariant.
LEMMA LoseMemoryPreserves ==
  ASSUME IInv, LoseMemory, disk' \in {disk, Saved},
         UNCHANGED <<life, next_token>>
  PROVE  IInv'
<1>1. /\ disk' \in [owner_id : Nat, phase : {"Running", "Over"}, roster : SUBSET Entry]
      /\ Central => disk'.owner_id = 0
  BY SavedType DEF IInv, TypeOK, NoCentralOwner
<1>2. /\ life' \in Nat /\ next_token' \in Nat
      /\ up' \in BOOLEAN /\ owner_id' = 0 /\ phase' = "Running"
  BY DEF IInv, TypeOK, LoseMemory
<1>3. Blank' /\ SoundOutside'
  BY <1>1, <1>2 DEF LoseMemory, Blank, SoundOutside
<1>4. Blank' /\ SoundOutside' => IInv'
  BY BlankIsSound, PTL
<1> QED
  BY <1>3, <1>4

\* A boot keeps it: the roster is empty whatever the save held.
LEMMA BootPreserves ==
  ASSUME IInv, Boot
  PROVE  IInv'
<1>1. /\ clients = {} /\ reaping = {} /\ kicked = {} /\ DOMAIN sessions = {}
      /\ DOMAIN player_of = {} /\ DOMAIN token_of = {} /\ limiters = {}
  BY DEF IInv, DownIsEmpty, RosterMatchesConnections, Boot
<1>2. /\ clients' = {} /\ limiters' = {} /\ reaping' = {} /\ kicked' = {}
      /\ DOMAIN sessions' = {} /\ DOMAIN player_of' = {} /\ DOMAIN token_of' = {}
      /\ roster' = {} /\ owner_id' = disk.owner_id /\ up' = TRUE
      /\ phase' = disk.phase /\ life' = life + 1
      /\ UNCHANGED <<player_of, token_of, sessions, session_order,
                     next_client_id, next_player_id, pending, disk, gone,
                     next_token, ghost_command>>
  BY <1>1 DEF Boot, BootRoster, loopVars, history
<1>3. TypeOK'
  BY <1>2 DEF IInv, TypeOK
<1>4. RosterMatchesConnections' /\ OneIdentityPerPlayer' /\ KickedStaysOut'
  BY <1>2 DEF RosterMatchesConnections, OneIdentityPerPlayer, KickedStaysOut
<1>5. FreshIds' /\ NoCentralOwner' /\ DownIsEmpty'
  BY <1>2 DEF IInv, FreshIds, NoCentralOwner, DownIsEmpty
<1>6. AuthorityRule'
  BY <1>2 DEF IInv, AuthorityRule, CentralRule, PersonalRule, SharedRule, OwnersAmong,
              NoCentralOwner
<1> QED
  BY <1>3, <1>4, <1>5, <1>6 DEF IInv

\* A step that leaves connections, sessions, roster, owner and kicks alone
\* keeps the invariant when what it does change keeps its type.
LEMMA QuietPreserves ==
  ASSUME IInv,
         UNCHANGED <<up, life, clients, player_of, token_of, limiters, sessions,
                     session_order, next_client_id, next_player_id, roster,
                     owner_id, next_token, kicked>>,
         phase' \in {"Running", "Over"},
         pending' \in SUBSET Nat, gone' \in SUBSET Nat, ghost_command' \in BOOLEAN,
         reaping' \in SUBSET clients,
         disk' \in {disk, Saved}
  PROVE  IInv'
<1>1. /\ disk' \in [owner_id : Nat, phase : {"Running", "Over"}, roster : SUBSET Entry]
      /\ Central => disk'.owner_id = 0
  BY SavedType DEF IInv, TypeOK, NoCentralOwner
<1>2. TypeOK'
  BY <1>1 DEF IInv, TypeOK
<1>3. RosterMatchesConnections' /\ OneIdentityPerPlayer' /\ KickedStaysOut'
  BY DEF IInv, RosterMatchesConnections, OneIdentityPerPlayer, KickedStaysOut
<1>4. AuthorityRule' /\ FreshIds' /\ NoCentralOwner' /\ DownIsEmpty'
  BY <1>1 DEF IInv, AuthorityRule, CentralRule, PersonalRule, SharedRule,
              OwnersAmong, FreshIds, NoCentralOwner, DownIsEmpty
<1> QED
  BY <1>2, <1>3, <1>4 DEF IInv

-----------------------------------------------------------------------------
(* Every step *)

\* Every step keeps the invariant.
LEMMA NextPreserves == IInv /\ [Next]_vars => IInv'
<1> SUFFICES ASSUME IInv, [Next]_vars PROVE IInv'
  OBVIOUS
<1>1. CASE \E tok \in 0..(next_token - 1), acc \in AnyAccount : Join(tok, acc)
  BY <1>1, JoinPreserves
<1>2. CASE \E c \in 1..MaxConnections : Leave(c)
  <2>1. PICK c \in 1..MaxConnections : Leave(c)
    BY <1>2
  <2> QED
    BY <2>1, DisconnectPreserves DEF Leave, Draining
<1>3. CASE \E c \in 1..MaxConnections : Drop(c)
  <2>1. PICK c \in 1..MaxConnections : Drop(c)
    BY <1>3
  <2>2. gone' \in SUBSET Nat
    BY <2>1 DEF Drop, IInv, TypeOK
  <2> QED
    BY <2>1, <2>2, QuietPreserves DEF Drop, loopVars, stateVars, history, IInv, TypeOK, FreshIds
<1>4. CASE \E c \in 1..MaxConnections : Cmd(c)
  <2>1. PICK c \in 1..MaxConnections : Cmd(c)
    BY <1>4
  <2>2. pending' \in SUBSET Nat
    BY <2>1 DEF Cmd, IInv, TypeOK
  <2> QED
    BY <2>1, <2>2, QuietPreserves DEF Cmd, stateVars, history, IInv, TypeOK, FreshIds
<1>5. CASE \E c \in 1..MaxConnections : Reap(c)
  <2>1. PICK c \in 1..MaxConnections : Reap(c)
    BY <1>5
  <2>2. c \in clients /\ up
    BY <2>1 DEF Reap, IInv, FreshIds
  <2> QED
    BY <2>1, <2>2, DisconnectPreserves DEF Reap
<1>6. CASE \E c \in 1..MaxConnections, target \in 1..MaxConnections : Kick(c, target)
  BY <1>6, KickPreserves
<1>7. CASE Tick
  <2>1. /\ reaping' \in SUBSET clients /\ phase' \in {"Running", "Over"}
        /\ ghost_command' \in BOOLEAN
    BY <1>7 DEF Tick, Dead, IInv, TypeOK
  <2> QED
    BY <1>7, <2>1, QuietPreserves DEF Tick, IInv, TypeOK
<1>8. CASE WorldReset
  BY <1>8, QuietPreserves DEF WorldReset, Dead, history, IInv, TypeOK
<1>9. CASE Autosave
  BY <1>9, QuietPreserves DEF Autosave, loopVars, stateVars, history, IInv, TypeOK, FreshIds
<1>10. CASE Stop
  BY <1>10, LoseMemoryPreserves DEF Stop
<1>11. CASE Crash
  BY <1>11, LoseMemoryPreserves DEF Crash
<1>12. CASE Boot
  BY <1>12, BootPreserves
<1>13. CASE UNCHANGED vars
  BY <1>13, QuietPreserves DEF vars, loopVars, stateVars, history, IInv, TypeOK, FreshIds
<1> QED
  BY <1>1, <1>2, <1>3, <1>4, <1>5, <1>6, <1>7, <1>8, <1>9, <1>10, <1>11, <1>12, <1>13 DEF Next

\* Every reachable state satisfies the inductive invariant.
THEOREM Inductive == Spec => []IInv
BY InitEstablishes, NextPreserves, PTL DEF Spec

\* Every variable of the loop keeps its type, for any number of connections.
THEOREM TypeCorrect == Spec => []TypeOK
BY Inductive, PTL DEF IInv

\* The loop's four per-connection maps and the roster agree in every state.
THEOREM NoGhosts == Spec => []RosterMatchesConnections
BY Inductive, PTL DEF IInv

\* No player id is ever played twice or saved twice.
THEOREM IdentitiesUnique == Spec => []OneIdentityPerPlayer
BY Inductive, PTL DEF IInv

\* A kick cannot be undone by a reconnect.
THEOREM KicksHold == Spec => []KickedStaysOut
BY Inductive, PTL DEF IInv

\* The Owner role follows the world's kind, in every state of every world.
THEOREM AuthorityHolds == Spec => []AuthorityRule
BY Inductive, PTL DEF IInv

-----------------------------------------------------------------------------
(* The reconnect store, and what is owed to those who leave *)

Distinct(s) == \A i, j \in 1..Len(s) : s[i] = s[j] => i = j

\* A sequence without repetitions has as many members as it is long.
LEMMA DistinctCount ==
  ASSUME NEW s \in Seq(Nat), Distinct(s)
  PROVE  IsFiniteSet(ToSet(s)) /\ Cardinality(ToSet(s)) = Len(s)
<1>1. s \in [1..Len(s) -> ToSet(s)] /\ DOMAIN s = 1..Len(s) /\ Len(s) \in Nat
  BY DEF ToSet
<1>2. s \in Bijection(1..Len(s), ToSet(s))
  <2>1. s \in Injection(1..Len(s), ToSet(s))
    BY <1>1 DEF Distinct, Injection, IsInjective
  <2>2. \A t \in ToSet(s) : \E i \in 1..Len(s) : s[i] = t
    BY <1>1 DEF ToSet
  <2> QED BY <1>1, <2>1, <2>2 DEF Bijection, Surjection
<1>3. ExistsBijection(1..Len(s), ToSet(s))
  BY <1>2 DEF ExistsBijection
<1> QED BY <1>1, <1>3, FS_NatBijection, FS_CountingElements

\* The first of a sequence, as a prefix.
LEMMA FirstOnly ==
  ASSUME NEW s \in Seq(Nat), Len(s) >= 1
  PROVE  ToSet(SubSeq(s, 1, 1)) = {s[1]} /\ s[1] \in ToSet(s)
<1> DEFINE f == SubSeq(s, 1, 1)
<1>1. \A i \in 1..1 : s[i] \in Nat
  OBVIOUS
<1>2. f \in Seq(Nat) /\ Len(f) = 1 /\ f[1] = s[1]
  BY <1>1, SubSeqProperties
<1> HIDE DEF f
<1>3. ToSet(f) = {s[1]}
  <2>1. DOMAIN f = {1}
    BY <1>2
  <2> QED BY <1>2, <2>1 DEF ToSet
<1> QED BY <1>3 DEF f, ToSet

\* Whether the store fits without its oldest session, or as it is.
LEMMA FitsAre ==
  ASSUME NEW s \in Seq(Nat), Distinct(s)
  PROVE  /\ Fits(s, ToSet(s), 0) <=> Len(s) <= MaxSessions
         /\ s # <<>> => (Fits(s, ToSet(s), 1) <=> Len(s) - 1 <= MaxSessions)
<1>1. IsFiniteSet(ToSet(s)) /\ Cardinality(ToSet(s)) = Len(s) /\ Len(s) \in Nat
  BY DistinctCount
<1>2. ToSet(SubSeq(s, 1, 0)) = {}
  BY DEF ToSet
<1>3. ASSUME s # <<>> PROVE ToSet(SubSeq(s, 1, 1)) = {s[1]} /\ s[1] \in ToSet(s)
  <2>1. Len(s) >= 1
    BY <1>3
  <2> QED BY <2>1, FirstOnly
<1>4. Fits(s, ToSet(s), 0) <=> Len(s) <= MaxSessions
  <2>1. ToSet(s) \ {} = ToSet(s)
    OBVIOUS
  <2> QED BY <1>1, <1>2, <2>1 DEF Fits
<1>5. s # <<>> => (Fits(s, ToSet(s), 1) <=> Len(s) - 1 <= MaxSessions)
  <2> SUFFICES ASSUME s # <<>> PROVE Fits(s, ToSet(s), 1) <=> Len(s) - 1 <= MaxSessions
    OBVIOUS
  <2>1. Cardinality(ToSet(s) \ {s[1]}) = Len(s) - 1
    BY <1>1, <1>3, FS_RemoveElement
  <2> QED BY <1>3, <2>1 DEF Fits
<1> QED BY <1>4, <1>5

\* The store and the order of its tokens, and the tokens that are still out.
Store ==
  /\ ToSet(session_order) = DOMAIN sessions
  /\ Distinct(session_order)
  /\ Len(session_order) <= MaxSessions

TokensOut ==
  /\ \A t \in DOMAIN sessions : t < next_token
  /\ \A c \in clients : token_of[c] < next_token /\ token_of[c] \notin DOMAIN sessions
  /\ \A c, d \in clients : token_of[c] = token_of[d] => c = d

\* What a departure does to the store: the oldest session goes exactly when the store is full.
LEMMA Stashed ==
  ASSUME IInv, Store, TokensOut, NEW c \in clients, Disconnect(c)
  PROVE  /\ token_of[c] \in DOMAIN sessions'
         /\ sessions'[token_of[c]].id = player_of[c]
         /\ \/ /\ Len(session_order) < MaxSessions
               /\ DOMAIN sessions' = DOMAIN sessions \cup {token_of[c]}
               /\ session_order' = Append(session_order, token_of[c])
            \/ /\ Len(session_order) = MaxSessions /\ session_order # <<>>
               /\ DOMAIN sessions' = (DOMAIN sessions \cup {token_of[c]}) \ {Head(session_order)}
               /\ session_order' = Append(Tail(session_order), token_of[c])
<1> DEFINE tok == token_of[c]
           info == InfoOf(First(roster, player_of[c]))
           kept == Put(sessions, tok, info)
           order == Append(session_order, tok)
<1>1. /\ token_of \in [clients -> Nat] /\ tok \in Nat /\ tok \notin DOMAIN sessions
      /\ session_order \in Seq(Nat) /\ MaxSessions \in Nat /\ MaxSessions >= 1
      /\ Len(session_order) \in Nat
  BY SessionsAssumption DEF IInv, TypeOK, RosterMatchesConnections, TokensOut
<1>2. Stashable(c) /\ info.id = player_of[c]
  <2>1. c \in DOMAIN player_of /\ c \in DOMAIN token_of
    BY DEF IInv, RosterMatchesConnections
  <2>2. EntriesOf(roster, player_of[c]) # {} /\ First(roster, player_of[c]).id = player_of[c]
    BY EntryOfClient
  <2> QED BY <2>1, <2>2 DEF Stashable, InfoOf
<1>3. PICK n \in 0..Len(order) :
        /\ Evicts(order, DOMAIN kept, n)
        /\ sessions' = Only(kept, DOMAIN kept \ ToSet(SubSeq(order, 1, n)))
        /\ session_order' = SubSeq(order, n + 1, Len(order))
  BY <1>1, <1>2 DEF Disconnect, Stash
<1>4. DOMAIN kept = DOMAIN sessions \cup {tok} /\ kept[tok] = info
  BY DEF Put
<1>5. /\ order \in Seq(Nat) /\ Len(order) = Len(session_order) + 1
      /\ \A i \in 1..Len(session_order) : order[i] = session_order[i]
      /\ order[Len(session_order) + 1] = tok
  BY <1>1, AppendProperties
<1> HIDE DEF info, kept, order, tok
<1>6. ToSet(order) = DOMAIN kept
  <2>1. DOMAIN order = 1..Len(order) /\ DOMAIN session_order = 1..Len(session_order)
    BY <1>1, <1>5
  <2>2. 1..Len(order) = 1..Len(session_order) \cup {Len(session_order) + 1}
    BY <1>1, <1>5
  <2> QED BY <1>4, <1>5, <2>1, <2>2 DEF ToSet, Store
<1>7. Distinct(order)
  <2>1. \A i \in 1..Len(session_order) : session_order[i] \in DOMAIN sessions
    BY <1>1 DEF Store, ToSet
  <2>2. \A i \in 1..Len(order) : i \in 1..Len(session_order) \/ i = Len(session_order) + 1
    BY <1>1, <1>5
  <2> QED BY <1>1, <1>5, <2>1, <2>2 DEF Distinct, Store
<1>8. order # <<>> /\ n \in Nat
  BY <1>1, <1>5
<1>9. /\ Fits(order, DOMAIN kept, 0) <=> Len(order) <= MaxSessions
      /\ Fits(order, DOMAIN kept, 1) <=> Len(order) - 1 <= MaxSessions
  BY <1>5, <1>6, <1>7, <1>8, FitsAre
<1>10. Fits(order, DOMAIN kept, 1)
  BY <1>1, <1>5, <1>9 DEF Store
<1>11. n = 0 \/ n = 1
  <2>1. \A m \in 0..(n - 1) : ~Fits(order, DOMAIN kept, m)
    BY <1>3 DEF Evicts
  <2>2. ~(1 \in 0..(n - 1))
    BY <1>10, <2>1
  <2> QED BY <1>8, <2>2
<1>12. CASE n = 0
  <2>1. Len(order) <= MaxSessions
    <3>1. n # Len(order)
      BY <1>1, <1>5, <1>12
    <3> QED BY <1>3, <1>9, <1>12, <3>1 DEF Evicts
  <2>2. ToSet(SubSeq(order, 1, 0)) = {}
    BY DEF ToSet
  <2>3. SubSeq(order, 1, Len(order)) = order
    BY <1>5
  <2>4. sessions' = Only(kept, DOMAIN kept)
    BY <1>3, <1>12, <2>2
  <2>5. DOMAIN sessions' = DOMAIN kept /\ sessions'[tok] = info
    BY <1>4, <2>4 DEF Only, Restrict
  <2>6. session_order' = Append(session_order, tok)
    BY <1>3, <1>12, <2>3 DEF order
  <2>7. Len(session_order) < MaxSessions
    BY <1>1, <1>5, <2>1
  <2> QED BY <1>2, <1>4, <2>5, <2>6, <2>7 DEF tok
<1>13. CASE n = 1
  <2>1. Len(session_order) = MaxSessions
    <3>1. ~Fits(order, DOMAIN kept, 0)
      BY <1>3, <1>13 DEF Evicts
    <3> QED BY <1>1, <1>5, <1>9, <3>1 DEF Store
  <2>2. session_order # <<>> /\ order[1] = Head(session_order) /\ order[1] \in DOMAIN sessions
    <3>1. Len(session_order) >= 1
      BY <1>1, <2>1
    <3> QED BY <1>1, <1>5, <3>1 DEF Store, ToSet
  <2>3. ToSet(SubSeq(order, 1, 1)) = {order[1]}
    <3>1. Len(order) >= 1
      BY <1>1, <1>5
    <3> QED BY <1>5, <3>1, FirstOnly
  <2>4. sessions' = Only(kept, DOMAIN kept \ {order[1]})
    BY <1>3, <1>13, <2>3
  <2>5. DOMAIN sessions' = DOMAIN kept \ {order[1]} /\ sessions'[tok] = info
    BY <1>1, <1>4, <2>2, <2>4 DEF Only, Restrict, tok
  <2>6. session_order' = Append(Tail(session_order), tok)
    <3>1. session_order' = Tail(order)
      BY <1>3, <1>5, <1>8, <1>13, TailIsSubSeq
    <3> QED BY <1>1, <2>2, <3>1, HeadTailAppend DEF order
  <2>7. tok \in DOMAIN sessions'
    BY <1>1, <1>4, <2>2, <2>5 DEF tok
  <2> QED BY <1>2, <1>4, <2>1, <2>2, <2>5, <2>6, <2>7 DEF tok
<1> QED BY <1>11, <1>12, <1>13

\* A token that comes back leaves the order, which stays in order otherwise.
LEMMA Dropped ==
  ASSUME NEW s \in Seq(Nat), Distinct(s), NEW t \in ToSet(s)
  PROVE  /\ DropToken(s, t) \in Seq(Nat) /\ Distinct(DropToken(s, t))
         /\ ToSet(DropToken(s, t)) = ToSet(s) \ {t} /\ Len(DropToken(s, t)) = Len(s) - 1
<1> DEFINE k == CHOOSE i \in 1..Len(s) : s[i] = t
           a == SubSeq(s, 1, k - 1)
           b == SubSeq(s, k + 1, Len(s))
           d == DropToken(s, t)
<1>1. DOMAIN s = 1..Len(s) /\ Len(s) \in Nat /\ \A i \in 1..Len(s) : s[i] \in Nat
  OBVIOUS
<1>2. \E i \in 1..Len(s) : s[i] = t
  BY <1>1 DEF ToSet
<1>3. k \in 1..Len(s) /\ s[k] = t
  BY <1>2
<1>4. d = a \o b
  BY <1>2 DEF DropToken, RemoveAt
<1> HIDE DEF k
<1>5. /\ a \in Seq(Nat) /\ Len(a) = k - 1 /\ \A i \in 1..(k - 1) : a[i] = s[i]
      /\ b \in Seq(Nat) /\ Len(b) = Len(s) - k /\ \A i \in 1..(Len(s) - k) : b[i] = s[k + i]
  <2>1. k - 1 \in Int /\ k + 1 \in Int /\ Len(s) \in Int /\ 1 \in Int
    BY <1>1, <1>3
  <2>2. (\A i \in 1..(k - 1) : s[i] \in Nat) /\ (\A i \in (k + 1)..Len(s) : s[i] \in Nat)
    BY <1>1, <1>3
  <2>3. a \in Seq(Nat) /\ Len(a) = (IF 1 <= k - 1 THEN k - 1 - 1 + 1 ELSE 0) /\ \A i \in 1..(k - 1 - 1 + 1) : a[i] = s[1 + i - 1]
    BY <2>1, <2>2, SubSeqProperties
  <2>4. b \in Seq(Nat) /\ Len(b) = (IF k + 1 <= Len(s) THEN Len(s) - (k + 1) + 1 ELSE 0)
        /\ \A i \in 1..(Len(s) - (k + 1) + 1) : b[i] = s[k + 1 + i - 1]
    BY <2>1, <2>2, SubSeqProperties
  <2> HIDE DEF a, b
  <2>5. k - 1 - 1 + 1 = k - 1 /\ Len(s) - (k + 1) + 1 = Len(s) - k
        /\ (IF 1 <= k - 1 THEN k - 1 ELSE 0) = k - 1 /\ (IF k + 1 <= Len(s) THEN Len(s) - k ELSE 0) = Len(s) - k
    <3>1. \A n \in Nat : \A m \in 1..n :
            /\ m - 1 - 1 + 1 = m - 1 /\ n - (m + 1) + 1 = n - m
            /\ (IF 1 <= m - 1 THEN m - 1 ELSE 0) = m - 1 /\ (IF m + 1 <= n THEN n - m ELSE 0) = n - m
      OBVIOUS
    <3> QED BY <1>1, <1>3, <3>1
  <2>6. Len(a) = k - 1 /\ \A i \in 1..(k - 1) : a[i] = s[i]
    <3>1. \A i \in 1..(k - 1) : a[i] = s[1 + i - 1]
      BY <2>3, <2>5
    <3>2. \A i \in 1..(k - 1) : 1 + i - 1 = i
      OBVIOUS
    <3> QED BY <2>3, <2>5, <3>1, <3>2
  <2>7. Len(b) = Len(s) - k /\ \A i \in 1..(Len(s) - k) : b[i] = s[k + i]
    <3>1. \A i \in 1..(Len(s) - k) : b[i] = s[k + 1 + i - 1]
      BY <2>4, <2>5
    <3>2. \A i \in 1..(Len(s) - k) : k + 1 + i - 1 = k + i
      BY <1>3
    <3> QED BY <2>4, <2>5, <3>1, <3>2
  <2> QED BY <2>3, <2>4, <2>6, <2>7
<1> HIDE DEF a, b, d
<1>6. /\ d \in Seq(Nat) /\ Len(d) = Len(s) - 1
      /\ \A i \in 1..Len(d) : d[i] = s[IF i < k THEN i ELSE i + 1]
  <2>1. d \in Seq(Nat) /\ Len(d) = Len(a) + Len(b)
        /\ \A i \in 1..(Len(a) + Len(b)) : d[i] = IF i <= Len(a) THEN a[i] ELSE b[i - Len(a)]
    BY <1>4, <1>5, ConcatProperties
  <2>2. Len(d) = Len(s) - 1
    BY <1>1, <1>3, <1>5, <2>1
  <2>3. ASSUME NEW i \in 1..Len(d) PROVE d[i] = s[IF i < k THEN i ELSE i + 1]
    <3>1. CASE i < k
      BY <1>1, <1>3, <1>5, <2>1, <2>2, <3>1
    <3>2. CASE ~(i < k)
      <4>1. i - (k - 1) \in 1..(Len(s) - k) /\ k + (i - (k - 1)) = i + 1
        BY <1>1, <1>3, <2>2, <3>2
      <4>2. d[i] = b[i - (k - 1)]
        BY <1>1, <1>3, <1>5, <2>1, <2>2, <3>2
      <4> QED BY <1>5, <3>2, <4>1, <4>2
    <3> QED BY <3>1, <3>2
  <2> QED BY <2>1, <2>2, <2>3
<1> DEFINE at(i) == IF i < k THEN i ELSE i + 1
<1>7. /\ \A i \in 1..Len(d) : at(i) \in 1..Len(s) /\ at(i) # k
      /\ \A i, j \in 1..Len(d) : at(i) = at(j) => i = j
      /\ \A j \in 1..Len(s) \ {k} : \E i \in 1..Len(d) : at(i) = j
  <2>1. \A i \in 1..Len(d) : at(i) \in 1..Len(s) /\ at(i) # k
    BY <1>1, <1>3, <1>6
  <2>2. \A i, j \in 1..Len(d) : at(i) = at(j) => i = j
    BY SMTT(60), <1>1, <1>3, <1>6
  <2>3. ASSUME NEW j \in 1..Len(s) \ {k} PROVE \E i \in 1..Len(d) : at(i) = j
    <3>1. CASE j < k
      <4>1. j \in 1..Len(d)
        BY <1>1, <1>3, <1>6, <3>1
      <4> QED BY <3>1, <4>1
    <3>2. CASE ~(j < k)
      <4>1. j - 1 \in 1..Len(d) /\ at(j - 1) = j
        BY <1>1, <1>3, <1>6, <3>2
      <4> QED BY <4>1
    <3> QED BY <3>1, <3>2
  <2> QED BY <2>1, <2>2, <2>3
<1>8. \A i \in 1..Len(d) : d[i] = s[at(i)]
  BY <1>6
<1> HIDE DEF at
<1>9. Distinct(d)
  BY <1>7, <1>8 DEF Distinct
<1>10. ToSet(d) = ToSet(s) \ {t}
  <2>1. DOMAIN d = 1..Len(d)
    BY <1>6
  <2>2. ASSUME NEW x \in ToSet(d) PROVE x \in ToSet(s) \ {t}
    <3>1. PICK i \in 1..Len(d) : x = d[i]
      BY <2>1 DEF ToSet
    <3> QED BY <1>1, <1>3, <1>7, <1>8, <3>1 DEF Distinct, ToSet
  <2>3. ASSUME NEW x \in ToSet(s) \ {t} PROVE x \in ToSet(d)
    <3>1. PICK j \in 1..Len(s) : x = s[j]
      BY <1>1 DEF ToSet
    <3>2. j # k
      BY <1>3, <3>1
    <3>3. PICK i \in 1..Len(d) : at(i) = j
      BY <1>7, <3>2
    <3> QED BY <1>8, <2>1, <3>1, <3>3 DEF ToSet
  <2> QED BY <2>2, <2>3
<1> QED BY <1>6, <1>9, <1>10 DEF d

\* An order with its oldest dropped, or not, and a new token at the end.
LEMMA Appended ==
  ASSUME NEW s \in Seq(Nat), Distinct(s), NEW t \in Nat, t \notin ToSet(s)
  PROVE  /\ Append(s, t) \in Seq(Nat) /\ Distinct(Append(s, t))
         /\ ToSet(Append(s, t)) = ToSet(s) \cup {t} /\ Len(Append(s, t)) = Len(s) + 1
<1> DEFINE d == Append(s, t)
<1>1. /\ d \in Seq(Nat) /\ Len(d) = Len(s) + 1 /\ Len(s) \in Nat
      /\ \A i \in 1..Len(s) : d[i] = s[i]
      /\ d[Len(s) + 1] = t
  BY AppendProperties
<1>2. DOMAIN d = 1..Len(d) /\ DOMAIN s = 1..Len(s) /\ 1..Len(d) = 1..Len(s) \cup {Len(s) + 1}
      /\ Len(s) + 1 \notin 1..Len(s)
  BY <1>1
<1> HIDE DEF d
<1>3. ToSet(d) = ToSet(s) \cup {t}
  BY <1>1, <1>2 DEF ToSet
<1>4. Distinct(d)
  <2>1. \A i \in 1..Len(s) : s[i] \in ToSet(s)
    BY <1>2 DEF ToSet
  <2> QED BY <1>1, <1>2, <2>1 DEF Distinct
<1> QED BY <1>1, <1>3, <1>4 DEF d

\* Without its first.
LEMMA Oldest ==
  ASSUME NEW s \in Seq(Nat), Distinct(s), s # <<>>
  PROVE  /\ Tail(s) \in Seq(Nat) /\ Distinct(Tail(s)) /\ Len(Tail(s)) = Len(s) - 1
         /\ ToSet(Tail(s)) = ToSet(s) \ {Head(s)} /\ Head(s) \in ToSet(s)
<1> DEFINE d == Tail(s)
<1>1. /\ d \in Seq(Nat) /\ Len(d) = Len(s) - 1 /\ Len(s) \in Nat /\ Len(s) >= 1 /\ Head(s) = s[1]
      /\ \A i \in 1..Len(d) : d[i] = s[i + 1]
  BY HeadTailProperties
<1>2. DOMAIN d = 1..Len(d) /\ DOMAIN s = 1..Len(s)
  BY <1>1
<1> HIDE DEF d
<1>3. \A i \in 1..Len(d) : i + 1 \in 1..Len(s) /\ i + 1 # 1
  BY <1>1
<1>4. \A j \in 1..Len(s) : j = 1 \/ (j - 1 \in 1..Len(d) /\ j - 1 + 1 = j)
  BY <1>1
<1>5. Distinct(d)
  <2> SUFFICES ASSUME NEW i \in 1..Len(d), NEW j \in 1..Len(d), d[i] = d[j] PROVE i = j
    BY DEF Distinct
  <2>1. i + 1 = j + 1
    BY <1>1, <1>3 DEF Distinct
  <2> QED BY <1>1, <2>1
<1>6. ToSet(d) = ToSet(s) \ {s[1]} /\ s[1] \in ToSet(s)
  <2>1. s[1] \in ToSet(s)
    BY SMTT(60), <1>1, <1>2 DEF ToSet
  <2>2. ASSUME NEW x \in ToSet(d) PROVE x \in ToSet(s) \ {s[1]}
    <3>1. PICK i \in 1..Len(d) : x = d[i]
      BY <1>2 DEF ToSet
    <3>2. x = s[i + 1] /\ i + 1 \in 1..Len(s) /\ i + 1 # 1 /\ 1 \in 1..Len(s)
      BY <1>1, <1>3, <3>1
    <3> QED BY <1>2, <3>2 DEF Distinct, ToSet
  <2>3. ASSUME NEW x \in ToSet(s) \ {s[1]} PROVE x \in ToSet(d)
    <3>1. PICK j \in 1..Len(s) : x = s[j]
      BY <1>2 DEF ToSet
    <3>2. j - 1 \in 1..Len(d) /\ j - 1 + 1 = j
      BY <1>4, <3>1
    <3>3. x = d[j - 1]
      BY <1>1, <3>1, <3>2
    <3> QED BY <1>2, <3>2, <3>3 DEF ToSet
  <2> QED BY <2>1, <2>2, <2>3
<1> QED BY <1>1, <1>5, <1>6 DEF d

\* Both of a departure.
LEMMA LeaveKeeps ==
  ASSUME IInv, Store, TokensOut, NEW c \in clients, Disconnect(c), next_token' = next_token
  PROVE  Store' /\ TokensOut'
<1> DEFINE tok == token_of[c]
           old == session_order
<1>1. /\ token_of \in [clients -> Nat] /\ tok \in Nat /\ tok < next_token
      /\ old \in Seq(Nat) /\ Len(old) \in Nat /\ MaxSessions \in Nat
      /\ tok \notin ToSet(old) /\ Distinct(old) /\ ToSet(old) = DOMAIN sessions
  BY SessionsAssumption DEF IInv, TypeOK, RosterMatchesConnections, TokensOut, Store
<1>2. \/ /\ Len(old) < MaxSessions
         /\ DOMAIN sessions' = DOMAIN sessions \cup {tok} /\ session_order' = Append(old, tok)
      \/ /\ Len(old) = MaxSessions /\ old # <<>>
         /\ DOMAIN sessions' = (DOMAIN sessions \cup {tok}) \ {Head(old)}
         /\ session_order' = Append(Tail(old), tok)
  BY Stashed
<1>3. /\ clients' = clients \ {c}
      /\ \A d \in clients \ {c} : token_of'[d] = token_of[d]
  BY DisconnectShape
<1> HIDE DEF tok, old
<1>4. Store'
  <2>1. CASE Len(old) < MaxSessions /\ DOMAIN sessions' = DOMAIN sessions \cup {tok} /\ session_order' = Append(old, tok)
    <3>1. /\ Distinct(session_order') /\ ToSet(session_order') = DOMAIN sessions' /\ Len(session_order') = Len(old) + 1
      BY <1>1, <2>1, Appended
    <3> QED BY <1>1, <2>1, <3>1 DEF Store
  <2>2. CASE /\ Len(old) = MaxSessions /\ old # <<>>
             /\ DOMAIN sessions' = (DOMAIN sessions \cup {tok}) \ {Head(old)}
             /\ session_order' = Append(Tail(old), tok)
    <3>1. /\ Tail(old) \in Seq(Nat) /\ Distinct(Tail(old)) /\ Len(Tail(old)) = Len(old) - 1
          /\ ToSet(Tail(old)) = ToSet(old) \ {Head(old)} /\ Head(old) \in ToSet(old)
      BY <1>1, <2>2, Oldest
    <3>2. tok \notin ToSet(Tail(old)) /\ tok # Head(old)
      BY <1>1, <3>1
    <3>3. /\ Distinct(session_order') /\ ToSet(session_order') = ToSet(Tail(old)) \cup {tok}
          /\ Len(session_order') = Len(Tail(old)) + 1
      BY <1>1, <2>2, <3>1, <3>2, Appended
    <3>4. ToSet(session_order') = DOMAIN sessions'
      BY <1>1, <2>2, <3>1, <3>2, <3>3
    <3> QED BY <1>1, <2>2, <3>1, <3>3, <3>4 DEF Store
  <2> QED BY <1>2, <2>1, <2>2
<1>5. TokensOut'
  <2>1. \A t \in DOMAIN sessions' : t \in DOMAIN sessions \/ t = tok
    BY <1>2
  <2> QED BY <1>1, <1>3, <2>1 DEF TokensOut, tok
<1> QED BY <1>4, <1>5

\* Of a join: the token it came with is used up, the one it is given is new.
LEMMA JoinKeeps ==
  ASSUME IInv, Store, TokensOut, NEW tok \in 0..(next_token - 1), NEW acc, Join(tok, acc)
  PROVE  /\ Store' /\ TokensOut'
         /\ DOMAIN sessions' = DOMAIN sessions \ {tok}
         /\ (tok \in DOMAIN sessions => \E e \in roster' : e.id = sessions[tok].id)
<1> DEFINE c == next_client_id
<1>1. /\ session_order \in Seq(Nat) /\ next_token \in Nat /\ MaxSessions \in Nat
      /\ token_of \in [clients -> Nat] /\ Len(session_order) \in Nat
      /\ \A d \in clients : d < c /\ d \in Nat /\ c \in Nat
  BY SessionsAssumption DEF IInv, TypeOK, RosterMatchesConnections, FreshIds
<1>2. /\ clients' = clients \cup {c} /\ c \notin clients /\ next_token' = next_token + 1
      /\ token_of' = Put(token_of, c, next_token)
      /\ sessions' = Only(sessions, DOMAIN sessions \ {tok})
      /\ session_order' = IF tok \in DOMAIN sessions THEN DropToken(session_order, tok) ELSE session_order
  BY <1>1 DEF Join, TakeSession
<1>3. DOMAIN sessions' = DOMAIN sessions \ {tok}
  BY <1>2 DEF Only, Restrict
<1>4. token_of'[c] = next_token /\ \A d \in clients : token_of'[d] = token_of[d]
  BY <1>1, <1>2 DEF Put
<1>5. TokensOut'
  <2>1. \A t \in DOMAIN sessions : t \in Nat /\ t < next_token
    BY DEF TokensOut, IInv, TypeOK
  <2>2. \A d \in clients : token_of[d] \in Nat /\ token_of[d] < next_token
    BY <1>1 DEF TokensOut
  <2>3. \A t \in DOMAIN sessions' : t < next_token'
    BY <1>1, <1>2, <1>3, <2>1
  <2>4. \A d \in clients' : token_of'[d] < next_token' /\ token_of'[d] \notin DOMAIN sessions'
    BY <1>1, <1>2, <1>3, <1>4, <2>1, <2>2 DEF TokensOut
  <2>5. \A d, e \in clients' : token_of'[d] = token_of'[e] => d = e
    BY <1>1, <1>2, <1>4, <2>2 DEF TokensOut
  <2> QED BY <2>3, <2>4, <2>5 DEF TokensOut
<1>6. Store'
  <2>1. CASE tok \in DOMAIN sessions
    <3>1. /\ Distinct(DropToken(session_order, tok)) /\ ToSet(DropToken(session_order, tok)) = ToSet(session_order) \ {tok}
          /\ Len(DropToken(session_order, tok)) = Len(session_order) - 1
      BY <1>1, <2>1, Dropped DEF Store
    <3>2. session_order' = DropToken(session_order, tok) /\ ToSet(session_order) = DOMAIN sessions
          /\ Len(session_order) <= MaxSessions
      BY <1>2, <2>1 DEF Store
    <3>3. Len(session_order') <= MaxSessions
      BY <1>1, <3>1, <3>2
    <3> QED BY <1>3, <3>1, <3>2, <3>3 DEF Store
  <2>2. CASE tok \notin DOMAIN sessions
    BY <1>2, <1>3, <2>2 DEF Store
  <2> QED BY <2>1, <2>2
<1>7. tok \in DOMAIN sessions => \E e \in roster' : e.id = sessions[tok].id
  <2> SUFFICES ASSUME tok \in DOMAIN sessions PROVE \E e \in roster' : e.id = sessions[tok].id
    OBVIOUS
  <2>1. PICK role, account : roster' = roster \cup {[slot |-> c, id |-> sessions[tok].id, role |-> role, account |-> account]}
    BY DEF Join
  <2> DEFINE e == [slot |-> c, id |-> sessions[tok].id, role |-> role, account |-> account]
  <2>2. e \in roster' /\ e.id = sessions[tok].id
    BY <2>1
  <2> QED BY <2>2
<1> QED BY <1>3, <1>5, <1>6, <1>7

Faithful == Store /\ TokensOut /\ NoGhostCommand

\* A step that starts or ends with no connection and no session.
LEMMA BlankKeeps == Blank' => Faithful'
<1> SUFFICES ASSUME Blank' PROVE Faithful'
  OBVIOUS
<1>1. clients' = {} /\ DOMAIN sessions' = {} /\ session_order' = <<>> /\ ghost_command' = FALSE
  BY EmptyMaps DEF Blank
<1>2. ToSet(<<>>) = {} /\ Len(<<>>) = 0
  BY DEF ToSet
<1>3. MaxSessions \in Nat
  BY SessionsAssumption
<1> QED BY <1>1, <1>2, <1>3 DEF Faithful, Store, TokensOut, NoGhostCommand, Distinct

\* A step that leaves the store, the tokens and what was applied alone.
LEMMA QuietKeeps ==
  ASSUME Faithful, UNCHANGED <<clients, token_of, sessions, session_order, next_token, ghost_command>>
  PROVE  Faithful'
BY DEF Faithful, Store, TokensOut, NoGhostCommand, Distinct

\* What one step does: the store stays in order, nobody plays without a connection, and whoever
\* leaves, or is forgotten, leaves as FaithKept says.
LEMMA StepKeepsFaith == IInv /\ Faithful /\ [Next]_vars => Faithful' /\ [FaithKept]_vars
<1> SUFFICES ASSUME IInv, Faithful, [Next]_vars PROVE Faithful' /\ [FaithKept]_vars
  OBVIOUS
<1>1. /\ Store /\ TokensOut /\ NoGhostCommand
      /\ session_order \in Seq(Nat) /\ DOMAIN player_of = clients /\ DOMAIN token_of = clients
      /\ reaping \subseteq clients
  BY DEF IInv, TypeOK, RosterMatchesConnections, FreshIds, Faithful
<1>2. ASSUME NEW tok \in 0..(next_token - 1), NEW acc \in AnyAccount, Join(tok, acc)
      PROVE  Faithful' /\ FaithKept
  <2>1. /\ Store' /\ TokensOut' /\ DOMAIN sessions' = DOMAIN sessions \ {tok}
        /\ (tok \in DOMAIN sessions => \E e \in roster' : e.id = sessions[tok].id)
    BY <1>1, <1>2, JoinKeeps
  <2>2. clients \subseteq clients' /\ ghost_command' = ghost_command
    BY <1>2 DEF Join
  <2>3. FaithKept
    BY <2>1, <2>2 DEF FaithKept
  <2> QED BY <1>1, <2>1, <2>2, <2>3 DEF Faithful, NoGhostCommand
<1>3. ASSUME NEW c \in clients, Disconnect(c), next_token' = next_token, ghost_command' = ghost_command
      PROVE  Faithful' /\ FaithKept
  <2>1. Store' /\ TokensOut'
    BY <1>1, <1>3, LeaveKeeps
  <2>2. clients' = clients \ {c}
    BY <1>3 DEF Disconnect
  <2>3. /\ token_of[c] \in DOMAIN sessions'
        /\ sessions'[token_of[c]].id = player_of[c]
        /\ \A t \in DOMAIN sessions \ DOMAIN sessions' :
             t = Head(session_order) /\ Len(session_order) = MaxSessions
    BY <1>1, <1>3, Stashed
  <2>4. FaithKept
    BY <2>2, <2>3 DEF FaithKept
  <2> QED BY <1>1, <1>3, <2>1, <2>4 DEF Faithful, NoGhostCommand
<1>4. CASE \E c \in 1..MaxConnections : Leave(c)
  BY <1>3, <1>4 DEF Leave, history
<1>5. CASE \E c \in 1..MaxConnections : Reap(c)
  BY <1>1, <1>3, <1>5 DEF Reap, history
<1>6. CASE \E c \in 1..MaxConnections, target \in 1..MaxConnections : Kick(c, target)
  <2>1. PICK c \in 1..MaxConnections, target \in 1..MaxConnections : Kick(c, target)
    BY <1>6
  <2>2. PICK ks \in ServedBy(target) :
          /\ clients' = clients \ ks
          /\ token_of' = Only(token_of, DOMAIN token_of \ ks)
          /\ sessions' = sessions /\ kicked' = kicked \cup {target}
          /\ UNCHANGED <<session_order, next_token, ghost_command>>
    BY <2>1 DEF Kick, KickSessions
  <2>3. \A d \in clients' : d \in clients /\ token_of'[d] = token_of[d]
    BY <1>1, <2>2 DEF Only, Restrict
  <2>4. \A d \in clients \ clients' : player_of[d] = target
    BY <1>1, <2>2 DEF ServedBy
  <2>5. Store' /\ TokensOut'
    <3>1. Store'
      BY <1>1, <2>2 DEF Store, Distinct
    <3>2. TokensOut'
      BY ZenonT(60), <1>1, <2>2, <2>3 DEF TokensOut
    <3> QED BY <3>1, <3>2
  <2>6. FaithKept
    BY <2>2, <2>4 DEF FaithKept
  <2> QED BY <1>1, <2>2, <2>5, <2>6 DEF Faithful, NoGhostCommand
<1>7. CASE Tick
  \* Whoever is on the roster is played.
  <2>1. \A p \in AppliedNow : \E c \in clients : player_of[c] = p
    BY EntryOfConnection DEF AppliedNow, RosterIds
  <2>2. AppliedNow \subseteq {player_of[c] : c \in clients}
    BY <2>1
  <2>3. ghost_command' = ghost_command
    <3>1. ghost_command = FALSE
      BY <1>1 DEF NoGhostCommand, IInv, TypeOK
    <3>2. ghost_command' = (ghost_command \/ ~(AppliedNow \subseteq {player_of[c] : c \in clients}))
      BY <1>7 DEF Tick
    <3> QED BY <2>2, <3>1, <3>2
  <2>4. UNCHANGED <<clients, token_of, sessions, session_order, next_token, ghost_command>>
    BY <1>7, <2>3 DEF Tick
  <2> QED BY <2>4, QuietKeeps DEF FaithKept
<1>8. ASSUME UNCHANGED <<clients, token_of, sessions, session_order, next_token, ghost_command>>
      PROVE  Faithful' /\ FaithKept
  BY <1>8, QuietKeeps DEF FaithKept
<1>9. CASE Stop \/ Crash
  <2>1. LoseMemory
    BY <1>9 DEF Stop, Crash
  <2>2. Blank' /\ ~up'
    BY <2>1 DEF LoseMemory, Blank
  <2> QED BY <2>2, BlankKeeps DEF FaithKept
<1>10. CASE Boot
  BY <1>8, <1>10 DEF Boot, loopVars, history
<1>11. CASE \E c \in 1..MaxConnections : Drop(c)
  BY <1>8, <1>11 DEF Drop, loopVars, history
<1>12. CASE \E c \in 1..MaxConnections : Cmd(c)
  BY <1>8, <1>12 DEF Cmd, history
<1>13. CASE WorldReset \/ Autosave
  BY <1>8, <1>13 DEF WorldReset, Autosave, loopVars, history
<1>14. CASE UNCHANGED vars
  BY <1>8, <1>14 DEF vars, loopVars, history
<1> QED BY <1>2, <1>4, <1>5, <1>6, <1>7, <1>9, <1>10, <1>11, <1>12, <1>13, <1>14 DEF Next

\* A world that has just started owes nobody anything.
LEMMA StartsFaithful == Init => Faithful
<1> SUFFICES ASSUME Init PROVE Faithful
  OBVIOUS
<1>1. clients = {} /\ DOMAIN sessions = {} /\ session_order = <<>> /\ ghost_command = FALSE
  BY EmptyMaps DEF Init
<1>2. ToSet(<<>>) = {} /\ Len(<<>>) = 0 /\ MaxSessions \in Nat
  BY SessionsAssumption DEF ToSet
<1> QED BY <1>1, <1>2 DEF Faithful, Store, TokensOut, NoGhostCommand, Distinct

\* The reconnect store stays in step with its order and within its cap.
THEOREM StoreInOrder == Spec => []Faithful
BY Inductive, StartsFaithful, StepKeepsFaith, PTL DEF Spec

\* No command outlives the connection that sent it.
THEOREM GhostsCommandNothing == Spec => []NoGhostCommand
BY StoreInOrder, PTL DEF Faithful

\* Whoever leaves can come back, unless kicked, and is forgotten only when
\* the store is full and his is its oldest session.
THEOREM FaithAlwaysKept == Spec => SessionsKeepFaith
BY Inductive, StoreInOrder, StepKeepsFaith, PTL DEF Spec, SessionsKeepFaith

-----------------------------------------------------------------------------
(* THE WIRE.  Nothing is lost on the way, for any number of connections of any *)
(* kind and any number of frames.  The way up is a bookkeeping of what was     *)
(* sent: what the world was handed, what is in the socket and what the app has *)
(* queued are consecutive, and together they are everything the app sent for   *)
(* as long as the line is good.  The way down counts: heard, in the inbox, in  *)
(* the socket and in the mail add up to what was mailed, and a line that       *)
(* closed had nothing left to say.                                             *)

AppState == [holds : BOOLEAN, sent : Nat, queue : Seq(Nat), writer : BOOLEAN, reader : BOOLEAN,
             inbox : Seq(Nat), heard : Nat, gone : BOOLEAN]
NetState == [sock : {"none", "waiting", "open", "shut"}, up : Seq(Nat), down : Seq(Nat),
             cut : BOOLEAN, stalled : BOOLEAN]
SrvState == [handler : {"none", "probe", "first", "serving", "over"}, writer : BOOLEAN, client : BOOLEAN,
             leave : BOOLEAN, mail : Seq(Nat), mailed : Nat, got : Seq(Nat)]

WireTypes ==
  /\ kind \in [Conns -> {"native", "web", "local"}]
  /\ app \in [Conns -> AppState] /\ net \in [Conns -> NetState] /\ srv \in [Conns -> SrvState]
  /\ sim \in BOOLEAN

\* How many, and the numbers after m, in order.
Size(q) == Len(q)
Counts(q, m) == \A k \in 1..Size(q) : q[k] = m + k

\* What is known of one connection, given its kind k, its app's end a, its socket n, its
\* server's end s, and whether the world still runs.
Broken(n) == n.sock = "shut" \/ n.cut

Opened(k, a, n, s) ==
  /\ a.holds \/ a.gone => a.sent > 0
  /\ k = "local" => a.inbox = <<>> /\ n.sock = "none" /\ ~n.cut /\ n.up = <<>> /\ n.down = <<>>
                    /\ s.handler \in {"none", "serving", "over"}
  /\ k # "local" /\ a.sent > 0 => n.sock # "none"
  /\ n.sock = "waiting" => s.handler = "none"
  /\ k = "web" => (a.reader => a.queue = <<>>) /\ (a.writer => Broken(n))
  /\ k # "local" /\ s.handler \in {"none", "probe", "first"} =>
       s.mail = <<>> /\ s.mailed = 0 /\ ~s.writer /\ ~s.client

\* Frames are numbered from the app's queue through the socket to the world, and while
\* nothing has come between none of them is missing.
Flowing(k, n, s) == IF k = "local" THEN s.handler = "serving" ELSE ~Broken(n)
UpInOrder(k, a, n, s) ==
  /\ Counts(s.got, 0) /\ Counts(n.up, Size(s.got))
  /\ Flowing(k, n, s) => /\ Counts(a.queue, Size(s.got) + Size(n.up))
                         /\ Size(s.got) + Size(n.up) + Size(a.queue) = a.sent

\* The server has said its last word on the connection.
Silent(k, n, s) ==
  /\ s.mail = <<>>
  /\ k = "native" => ~s.writer /\ s.handler \notin {"probe", "first"}
  /\ k = "web" => s.handler \notin {"probe", "first", "serving"}
  /\ k = "local" => ~s.client
  /\ k # "local" => n.sock = "shut"

\* The client's end has noticed that the socket is closed.
HungUp(k, a) == (k = "native" /\ ~a.reader) \/ (k = "web" /\ a.writer)

\* Neither the network nor the peer has failed.
Clean(k, n, w) == ~n.cut /\ ~n.stalled /\ (k = "web" => w)

\* What the app has heard and what is on its way are all that was mailed.
AddsUp(a, n, s) == a.heard + Size(a.inbox) + Size(n.down) + Size(s.mail) = s.mailed

DownInFull(k, a, n, s, w) ==
  /\ a.holds /\ n.sock = "shut" /\ ~n.cut => Silent(k, n, s)
  /\ a.holds /\ ~n.cut /\ HungUp(k, a) => n.down = <<>> /\ n.sock = "shut"
  /\ a.holds /\ Clean(k, n, w) => AddsUp(a, n, s)
  /\ a.gone /\ Clean(k, n, w) => a.heard = s.mailed /\ Silent(k, n, s)

Sound(k, a, n, s, w) == Opened(k, a, n, s) /\ UpInOrder(k, a, n, s) /\ DownInFull(k, a, n, s, w)

WireIInv == WireTypes /\ \A c \in Conns : Sound(kind[c], app[c], net[c], srv[c], sim)

-----------------------------------------------------------------------------
(* Sequences of consecutive numbers *)

Measured(q) == Size(q) \in Nat

\* A sequence that has lost its first member, or has gained x as its last, or is two.
Shorter(r, q) ==
  /\ Measured(r) /\ Size(q) = Size(r) + 1 /\ Head(q) \in Nat
  /\ \A m \in Nat : Counts(q, m) => Head(q) = m + 1 /\ Counts(r, m + 1)
Longer(r, q, x) ==
  /\ Measured(r) /\ Size(r) = Size(q) + 1
  /\ \A m \in Nat : Counts(q, m) /\ x = m + Size(q) + 1 => Counts(r, m)
Joined(r, q, t) ==
  /\ Measured(r) /\ Size(r) = Size(q) + Size(t)
  /\ \A m \in Nat : Counts(q, m) /\ Counts(t, m + Size(q)) => Counts(r, m)

\* The next number goes at the end.
LEMMA CountsAppend ==
  ASSUME NEW q \in Seq(Nat), NEW x \in Nat PROVE Append(q, x) \in Seq(Nat) /\ Longer(Append(q, x), q, x)
BY DEF Counts, Longer, Measured, Size

\* The first is the one after m, and the rest follow it.
LEMMA CountsTail ==
  ASSUME NEW q \in Seq(Nat), q # <<>> PROVE Tail(q) \in Seq(Nat) /\ Shorter(Tail(q), q)
<1> DEFINE r == Tail(q)
<1> USE DEF Size
<1>1. r \in Seq(Nat) /\ Size(r) = Size(q) - 1 /\ Size(r) \in Nat /\ Size(q) \in Nat \ {0} /\ Head(q) \in Nat /\ Head(q) = q[1]
  OBVIOUS
<1>2. \A i \in 1..Size(r) : r[i] = q[i + 1]
  OBVIOUS
<1> HIDE DEF r, Size
<1>3. ASSUME NEW m \in Nat, Counts(q, m) PROVE Head(q) = m + 1 /\ Counts(r, m + 1)
  <2>1. ASSUME NEW i \in 1..Size(r) PROVE r[i] = (m + 1) + i
    BY <1>1, <1>2, <1>3 DEF Counts
  <2> QED BY <1>1, <1>3, <2>1 DEF Counts
<1>4. Measured(r) /\ Size(q) = Size(r) + 1
  BY <1>1 DEF Measured, Size
<1>5. Shorter(r, q)
  BY <1>1, <1>3, <1>4 DEF Shorter
<1> QED BY <1>1, <1>5 DEF r

\* Two stretches that meet are one.
LEMMA CountsJoin ==
  ASSUME NEW q \in Seq(Nat), NEW t \in Seq(Nat) PROVE q \o t \in Seq(Nat) /\ Joined(q \o t, q, t)
BY DEF Counts, Joined, Measured, Size

\* The first of such a sequence is a number.
LEMMA HeadIsNat == \A q \in Seq(Nat) : q # <<>> => Head(q) \in Nat
OBVIOUS

\* The empty sequence is one of numbers.
LEMMA NoneSeq == <<>> \in Seq(Nat)
OBVIOUS

\* The first frame, and the first message, by themselves.
LEMMA OneCounts == <<1>> \in Seq(Nat) /\ Longer(<<1>>, <<>>, 1)
<1>1. <<1>> \in Seq(Nat) /\ Len(<<1>>) = 1 /\ <<1>>[1] = 1 /\ Len(<<>>) = 0
  OBVIOUS
<1>2. Size(<<1>>) = 1 /\ Size(<<>>) = 0
  BY <1>1 DEF Size
<1>3. ASSUME NEW m \in Nat, 1 = m + Size(<<>>) + 1 PROVE Counts(<<1>>, m)
  BY <1>1, <1>2, <1>3 DEF Counts
<1> QED BY <1>1, <1>2, <1>3 DEF Longer, Measured

\* The empty sequence has nothing to count.
LEMMA NoneCount == Size(<<>>) = 0 /\ \A m : Counts(<<>>, m)
<1>1. Size(<<>>) = 0
  BY DEF Size
<1> QED BY <1>1 DEF Counts

-----------------------------------------------------------------------------
(* One connection at a time *)

\* A step of one connection that leaves the world as it is concerns only that one.
LEMMA OneAtATime ==
  ASSUME WireIInv, NEW c \in Conns, NEW b \in AppState, NEW m \in NetState, NEW r \in SrvState,
         kind' = kind, sim' = sim, app' = [app EXCEPT ![c] = b], net' = [net EXCEPT ![c] = m],
         srv' = [srv EXCEPT ![c] = r], Sound(kind[c], b, m, r, sim)
  PROVE  WireIInv'
<1>1. WireTypes'
  BY DEF WireIInv, WireTypes
<1>2. ASSUME NEW d \in Conns PROVE Sound(kind'[d], app'[d], net'[d], srv'[d], sim')
  <2>1. Sound(kind[d], app[d], net[d], srv[d], sim)
    BY DEF WireIInv
  <2>2. CASE d = c
    <3>1. app'[d] = b /\ net'[d] = m /\ srv'[d] = r /\ kind'[d] = kind[c]
      BY <2>2 DEF WireIInv, WireTypes
    <3> QED BY <3>1
  <2>3. CASE d # c
    <3>1. app'[d] = app[d] /\ net'[d] = net[d] /\ srv'[d] = srv[d]
      BY <2>3 DEF WireIInv, WireTypes
    <3> QED BY <2>1, <3>1
  <2> QED BY <2>2, <2>3
<1> QED BY <1>1, <1>2 DEF WireIInv

\* The parts of one connection, with their types, and how its sequences measure.
Typed(k, a, n, s) ==
  /\ k \in {"native", "web", "local"} /\ sim \in BOOLEAN
  /\ a \in AppState /\ n \in NetState /\ s \in SrvState
Numbers(a, n, s) ==
  /\ Measured(a.queue) /\ Measured(a.inbox) /\ Measured(n.up) /\ Measured(n.down)
  /\ Measured(s.mail) /\ Measured(s.got)
  /\ a.sent \in Nat /\ a.heard \in Nat /\ s.mailed \in Nat

\* A connection that is sound is known in its parts.
LEMMA Parts ==
  ASSUME WireIInv, NEW c \in Conns
  PROVE  /\ Typed(kind[c], app[c], net[c], srv[c]) /\ Numbers(app[c], net[c], srv[c])
         /\ Sound(kind[c], app[c], net[c], srv[c], sim)
         /\ app = [app EXCEPT ![c] = app[c]] /\ net = [net EXCEPT ![c] = net[c]]
         /\ srv = [srv EXCEPT ![c] = srv[c]]
<1>1. /\ kind[c] \in {"native", "web", "local"} /\ sim \in BOOLEAN
      /\ app[c] \in AppState /\ net[c] \in NetState /\ srv[c] \in SrvState
      /\ Sound(kind[c], app[c], net[c], srv[c], sim)
      /\ app = [app EXCEPT ![c] = app[c]] /\ net = [net EXCEPT ![c] = net[c]]
      /\ srv = [srv EXCEPT ![c] = srv[c]]
  BY DEF WireIInv, WireTypes
<1>2. \A q \in Seq(Nat) : Measured(q)
  BY DEF Measured, Size
<1>3. Numbers(app[c], net[c], srv[c])
  BY <1>1, <1>2 DEF Numbers, AppState, NetState, SrvState
<1> QED BY <1>1, <1>3 DEF Typed

-----------------------------------------------------------------------------
(* Every step *)

\* Opening a connection keeps the invariant.
LEMMA ConnectKeeps == ASSUME WireIInv, NEW c \in Conns, Connect(c) PROVE WireIInv'
<1> DEFINE k == kind[c]  a == app[c]  n == net[c]  s == srv[c]
<1>1. app = [app EXCEPT ![c] = a] /\ net = [net EXCEPT ![c] = n] /\ srv = [srv EXCEPT ![c] = s]
  BY Parts
<1>2. Typed(k, a, n, s)
  BY Parts
<1>3. Numbers(a, n, s)
  BY Parts
<1>4. Sound(k, a, n, s, sim)
  BY Parts
<1> HIDE DEF k, a, n, s
<1>5. CASE k = "native" /\ Connect(c)
  <2> DEFINE q == <<1>>
             b == [NoApp EXCEPT !.holds = TRUE, !.sent = 1, !.queue = IF Web(c) THEN q ELSE <<>>, !.writer = Native(c), !.reader = Native(c)]
             m == [NoNet EXCEPT !.sock = "waiting", !.up = IF Native(c) THEN q ELSE <<>>]
             r == NoSrv
  <2>1. /\ kind' = kind /\ sim' = sim /\ app' = [app EXCEPT ![c] = b]
        /\ net' = [net EXCEPT ![c] = m] /\ srv' = [srv EXCEPT ![c] = r]
    BY <1>1, <1>5 DEF Connect, App, Net, Srv, Native, Web, Local, Lost, Broken, Size, k, a, n, s
  <2>2. q \in Seq(Nat)
    BY <1>2, <1>5, OneCounts DEF Typed, AppState, NetState, SrvState
  <2>3. Longer(q, <<>>, 1)
    BY <1>2, <1>5, OneCounts DEF Typed, AppState, NetState, SrvState
  <2> HIDE DEF q
  <2>4. /\ b \in AppState
        /\ b.holds = TRUE /\ b.sent = 1 /\ b.queue = <<>> /\ b.writer = TRUE /\ b.reader = TRUE
        /\ b.inbox = <<>> /\ b.heard = 0 /\ b.gone = FALSE
    BY <1>2, <2>2, NoneSeq, <1>5 DEF Typed, AppState, NoApp, Native, Web, Local, Lost, Broken, k
  <2>5. /\ m \in NetState
        /\ m.sock = "waiting" /\ m.up = q /\ m.down = <<>> /\ m.cut = FALSE /\ m.stalled = FALSE
    BY <1>2, <2>2, NoneSeq, <1>5 DEF Typed, NetState, NoNet, Native, Web, Local, Lost, Broken, k
  <2>6. /\ r \in SrvState
        /\ r.handler = "none" /\ r.writer = FALSE /\ r.client = FALSE /\ r.leave = FALSE
        /\ r.mail = <<>> /\ r.mailed = 0 /\ r.got = <<>>
    BY <1>2, <2>2, NoneSeq, <1>5 DEF Typed, SrvState, NoSrv, Native, Web, Local, Lost, Broken, k
  <2> HIDE DEF b, m, r
  <2>7. Size(q) = 1 /\ Counts(q, 0) /\ Size(<<>>) = 0 /\ \A i : Counts(<<>>, i)
    BY <2>3, NoneCount DEF Longer
  <2>8. Opened(k, b, m, r)
    BY <1>2, <1>3, <1>4, <1>5, <2>3, <2>4, <2>5, <2>6, NoneCount DEF Typed, Numbers, Sound,
       Opened, Broken, Measured, Longer
  <2>9. UpInOrder(k, b, m, r)
    BY <1>5, <2>4, <2>5, <2>6, <2>7 DEF UpInOrder, Flowing, Broken
  <2>10. b.holds /\ Clean(k, m, sim) => AddsUp(b, m, r)
    BY <1>5, <2>4, <2>5, <2>6, <2>7 DEF AddsUp
  <2>11. DownInFull(k, b, m, r, sim)
    BY <1>2, <1>4, <1>5, <2>4, <2>5, <2>6, NoneCount, <2>10 DEF Typed, Sound, Opened,
       DownInFull, Silent, HungUp, Clean, Broken
  <2> QED BY <1>2, <2>1, <2>3, <2>4, <2>5, <2>6, <2>8, <2>9, <2>11, OneAtATime DEF Sound, Typed, k
<1>6. CASE k = "web" /\ Connect(c)
  <2> DEFINE q == <<1>>
             b == [NoApp EXCEPT !.holds = TRUE, !.sent = 1, !.queue = IF Web(c) THEN q ELSE <<>>, !.writer = Native(c), !.reader = Native(c)]
             m == [NoNet EXCEPT !.sock = "waiting", !.up = IF Native(c) THEN q ELSE <<>>]
             r == NoSrv
  <2>1. /\ kind' = kind /\ sim' = sim /\ app' = [app EXCEPT ![c] = b]
        /\ net' = [net EXCEPT ![c] = m] /\ srv' = [srv EXCEPT ![c] = r]
    BY <1>1, <1>6 DEF Connect, App, Net, Srv, Native, Web, Local, Lost, Broken, Size, k, a, n, s
  <2>2. q \in Seq(Nat)
    BY <1>2, <1>6, OneCounts DEF Typed, AppState, NetState, SrvState
  <2>3. Longer(q, <<>>, 1)
    BY <1>2, <1>6, OneCounts DEF Typed, AppState, NetState, SrvState
  <2> HIDE DEF q
  <2>4. /\ b \in AppState
        /\ b.holds = TRUE /\ b.sent = 1 /\ b.queue = q /\ b.writer = FALSE /\ b.reader = FALSE
        /\ b.inbox = <<>> /\ b.heard = 0 /\ b.gone = FALSE
    BY <1>2, <2>2, NoneSeq, <1>6 DEF Typed, AppState, NoApp, Native, Web, Local, Lost, Broken, k
  <2>5. /\ m \in NetState
        /\ m.sock = "waiting" /\ m.up = <<>> /\ m.down = <<>> /\ m.cut = FALSE
        /\ m.stalled = FALSE
    BY <1>2, <2>2, NoneSeq, <1>6 DEF Typed, NetState, NoNet, Native, Web, Local, Lost, Broken, k
  <2>6. /\ r \in SrvState
        /\ r.handler = "none" /\ r.writer = FALSE /\ r.client = FALSE /\ r.leave = FALSE
        /\ r.mail = <<>> /\ r.mailed = 0 /\ r.got = <<>>
    BY <1>2, <2>2, NoneSeq, <1>6 DEF Typed, SrvState, NoSrv, Native, Web, Local, Lost, Broken, k
  <2> HIDE DEF b, m, r
  <2>7. Size(q) = 1 /\ Counts(q, 0) /\ Size(<<>>) = 0 /\ \A i : Counts(<<>>, i)
    BY <2>3, NoneCount DEF Longer
  <2>8. Opened(k, b, m, r)
    BY <1>2, <1>3, <1>4, <1>6, <2>3, <2>4, <2>5, <2>6, NoneCount DEF Typed, Numbers, Sound,
       Opened, Broken, Measured, Longer
  <2>9. UpInOrder(k, b, m, r)
    BY <1>6, <2>4, <2>5, <2>6, <2>7 DEF UpInOrder, Flowing, Broken
  <2>10. b.holds /\ Clean(k, m, sim) => AddsUp(b, m, r)
    BY <1>6, <2>4, <2>5, <2>6, <2>7 DEF AddsUp
  <2>11. DownInFull(k, b, m, r, sim)
    BY <1>2, <1>4, <1>6, <2>4, <2>5, <2>6, NoneCount, <2>10 DEF Typed, Sound, Opened,
       DownInFull, Silent, HungUp, Clean, Broken
  <2> QED BY <1>2, <2>1, <2>3, <2>4, <2>5, <2>6, <2>8, <2>9, <2>11, OneAtATime DEF Sound, Typed, k
<1>7. CASE k = "local" /\ sim /\ Connect(c)
  <2> DEFINE q == <<1>>
             b == [NoApp EXCEPT !.holds = TRUE, !.sent = 1, !.queue = IF Web(c) THEN q ELSE <<>>, !.writer = Native(c), !.reader = Native(c)]
             m == NoNet
             r == [NoSrv EXCEPT !.handler = "serving", !.client = TRUE, !.mail = q, !.mailed = 1, !.got = q]
  <2>1. /\ kind' = kind /\ sim' = sim /\ app' = [app EXCEPT ![c] = b]
        /\ net' = [net EXCEPT ![c] = m] /\ srv' = [srv EXCEPT ![c] = r]
    BY <1>1, <1>7 DEF Connect, App, Net, Srv, Native, Web, Local, Lost, Broken, Size, k, a, n, s
  <2>2. q \in Seq(Nat)
    BY <1>2, <1>7, OneCounts DEF Typed, AppState, NetState, SrvState
  <2>3. Longer(q, <<>>, 1)
    BY <1>2, <1>7, OneCounts DEF Typed, AppState, NetState, SrvState
  <2> HIDE DEF q
  <2>4. /\ b \in AppState
        /\ b.holds = TRUE /\ b.sent = 1 /\ b.queue = <<>> /\ b.writer = FALSE
        /\ b.reader = FALSE /\ b.inbox = <<>> /\ b.heard = 0 /\ b.gone = FALSE
    BY <1>2, <2>2, NoneSeq, <1>7 DEF Typed, AppState, NoApp, Native, Web, Local, Lost, Broken, k
  <2>5. /\ m \in NetState
        /\ m.sock = "none" /\ m.up = <<>> /\ m.down = <<>> /\ m.cut = FALSE /\ m.stalled = FALSE
    BY <1>2, <2>2, NoneSeq, <1>7 DEF Typed, NetState, NoNet, Native, Web, Local, Lost, Broken, k
  <2>6. /\ r \in SrvState
        /\ r.handler = "serving" /\ r.writer = FALSE /\ r.client = TRUE /\ r.leave = FALSE
        /\ r.mail = q /\ r.mailed = 1 /\ r.got = q
    BY <1>2, <2>2, NoneSeq, <1>7 DEF Typed, SrvState, NoSrv, Native, Web, Local, Lost, Broken, k
  <2> HIDE DEF b, m, r
  <2>7. Size(q) = 1 /\ Counts(q, 0) /\ Size(<<>>) = 0 /\ \A i : Counts(<<>>, i)
    BY <2>3, NoneCount DEF Longer
  <2>8. Opened(k, b, m, r)
    BY <1>2, <1>3, <1>4, <1>7, <2>3, <2>4, <2>5, <2>6, NoneCount DEF Typed, Numbers, Sound,
       Opened, Broken, Measured, Longer
  <2>9. UpInOrder(k, b, m, r)
    BY <1>7, <2>4, <2>5, <2>6, <2>7 DEF UpInOrder, Flowing, Broken
  <2>10. b.holds /\ Clean(k, m, sim) => AddsUp(b, m, r)
    BY <1>7, <2>4, <2>5, <2>6, <2>7 DEF AddsUp
  <2>11. DownInFull(k, b, m, r, sim)
    BY <1>2, <1>4, <1>7, <2>4, <2>5, <2>6, NoneCount, <2>10 DEF Typed, Sound, Opened,
       DownInFull, Silent, HungUp, Clean, Broken
  <2> QED BY <1>2, <2>1, <2>3, <2>4, <2>5, <2>6, <2>8, <2>9, <2>11, OneAtATime DEF Sound, Typed, k
<1>8. CASE k = "local" /\ ~sim /\ Connect(c)
  <2> DEFINE q == <<1>>
             b == [NoApp EXCEPT !.holds = TRUE, !.sent = 1, !.queue = IF Web(c) THEN q ELSE <<>>, !.writer = Native(c), !.reader = Native(c)]
             m == NoNet
             r == [NoSrv EXCEPT !.handler = "over"]
  <2>1. /\ kind' = kind /\ sim' = sim /\ app' = [app EXCEPT ![c] = b]
        /\ net' = [net EXCEPT ![c] = m] /\ srv' = [srv EXCEPT ![c] = r]
    BY <1>1, <1>8 DEF Connect, App, Net, Srv, Native, Web, Local, Lost, Broken, Size, k, a, n, s
  <2>2. q \in Seq(Nat)
    BY <1>2, <1>8, OneCounts DEF Typed, AppState, NetState, SrvState
  <2>3. Longer(q, <<>>, 1)
    BY <1>2, <1>8, OneCounts DEF Typed, AppState, NetState, SrvState
  <2> HIDE DEF q
  <2>4. /\ b \in AppState
        /\ b.holds = TRUE /\ b.sent = 1 /\ b.queue = <<>> /\ b.writer = FALSE
        /\ b.reader = FALSE /\ b.inbox = <<>> /\ b.heard = 0 /\ b.gone = FALSE
    BY <1>2, <2>2, NoneSeq, <1>8 DEF Typed, AppState, NoApp, Native, Web, Local, Lost, Broken, k
  <2>5. /\ m \in NetState
        /\ m.sock = "none" /\ m.up = <<>> /\ m.down = <<>> /\ m.cut = FALSE /\ m.stalled = FALSE
    BY <1>2, <2>2, NoneSeq, <1>8 DEF Typed, NetState, NoNet, Native, Web, Local, Lost, Broken, k
  <2>6. /\ r \in SrvState
        /\ r.handler = "over" /\ r.writer = FALSE /\ r.client = FALSE /\ r.leave = FALSE
        /\ r.mail = <<>> /\ r.mailed = 0 /\ r.got = <<>>
    BY <1>2, <2>2, NoneSeq, <1>8 DEF Typed, SrvState, NoSrv, Native, Web, Local, Lost, Broken, k
  <2> HIDE DEF b, m, r
  <2>7. Size(q) = 1 /\ Counts(q, 0) /\ Size(<<>>) = 0 /\ \A i : Counts(<<>>, i)
    BY <2>3, NoneCount DEF Longer
  <2>8. Opened(k, b, m, r)
    BY <1>2, <1>3, <1>4, <1>8, <2>3, <2>4, <2>5, <2>6, NoneCount DEF Typed, Numbers, Sound,
       Opened, Broken, Measured, Longer
  <2>9. UpInOrder(k, b, m, r)
    BY <1>8, <2>4, <2>5, <2>6, <2>7 DEF UpInOrder, Flowing, Broken
  <2>10. b.holds /\ Clean(k, m, sim) => AddsUp(b, m, r)
    BY <1>8, <2>4, <2>5, <2>6, <2>7 DEF AddsUp
  <2>11. DownInFull(k, b, m, r, sim)
    BY <1>2, <1>4, <1>8, <2>4, <2>5, <2>6, NoneCount, <2>10 DEF Typed, Sound, Opened,
       DownInFull, Silent, HungUp, Clean, Broken
  <2> QED BY <1>2, <2>1, <2>3, <2>4, <2>5, <2>6, <2>8, <2>9, <2>11, OneAtATime DEF Sound, Typed, k
<1> QED BY <1>2, <1>5, <1>6, <1>7, <1>8 DEF Connect, Native, Web, Local, Lost, Broken, k, a, n, s, Typed

\* A frame is numbered after all that were sent before.
LEMMA AppSendKeeps == ASSUME WireIInv, NEW c \in Conns, AppSend(c) PROVE WireIInv'
<1> DEFINE k == kind[c]  a == app[c]  n == net[c]  s == srv[c]
<1>1. app = [app EXCEPT ![c] = a] /\ net = [net EXCEPT ![c] = n] /\ srv = [srv EXCEPT ![c] = s]
  BY Parts
<1>2. Typed(k, a, n, s)
  BY Parts
<1>3. Numbers(a, n, s)
  BY Parts
<1>4. Sound(k, a, n, s, sim)
  BY Parts
<1> HIDE DEF k, a, n, s
<1>5. CASE a.holds /\ (k = "web" => ~a.reader /\ ~a.writer) /\ AppSend(c)
  <2> DEFINE x == a.sent + 1
             q == Append(a.queue, x)
             b == [a EXCEPT !.sent = x, !.queue = q]
  <2>1. /\ kind' = kind /\ sim' = sim /\ app' = [app EXCEPT ![c] = b]
        /\ net' = [net EXCEPT ![c] = n] /\ srv' = [srv EXCEPT ![c] = s]
    BY <1>1, <1>5 DEF AppSend, WsSend, App, Net, Srv, Native, Web, Local, Lost, Broken, Size, k, a, n, s
  <2>2. x \in Nat /\ x = a.sent + 1
    BY <1>3, <1>5 DEF Numbers, Measured
  <2>3. q \in Seq(Nat)
    BY <1>2, <1>5, <2>2, CountsAppend, HeadIsNat DEF Typed, AppState, NetState, SrvState
  <2>4. Longer(q, a.queue, x)
    BY <1>2, <1>5, <2>2, CountsAppend, HeadIsNat DEF Typed, AppState, NetState, SrvState
  <2> HIDE DEF x, q
  <2>5. /\ b \in AppState
        /\ b.holds = a.holds /\ b.sent = x /\ b.queue = q /\ b.writer = a.writer
        /\ b.reader = a.reader /\ b.inbox = a.inbox /\ b.heard = a.heard /\ b.gone = a.gone
    BY <1>2, <2>2, <2>3, NoneSeq, <1>5 DEF Typed, AppState
  <2> HIDE DEF b
  <2>6. Flowing(k, n, s) => Counts(a.queue, Size(s.got) + Size(n.up)) /\ Size(s.got) + Size(n.up) + Size(a.queue) = a.sent
    BY <1>4, <1>5 DEF Sound, UpInOrder, Flowing, Broken
  <2>7. Size(s.got) + Size(n.up) \in Nat
    BY <1>3 DEF Numbers, Measured
  <2>8. Flowing(k, n, s) => x = (Size(s.got) + Size(n.up)) + Size(a.queue) + 1 /\ Size(s.got) + Size(n.up) + Size(q) = x
    BY <1>3, <2>2, <2>4, <2>6, <2>7 DEF Longer, Numbers, Measured
  <2>9. Flowing(k, n, s) => Counts(q, Size(s.got) + Size(n.up))
    BY <2>4, <2>6, <2>7, <2>8 DEF Longer
  <2>10. Opened(k, b, n, s)
    BY <1>2, <1>3, <1>4, <1>5, <2>2, <2>4, <2>5, NoneCount DEF Typed, Numbers, Sound, Opened,
       Broken, Measured, Longer
  <2>11. UpInOrder(k, b, n, s)
    BY <1>4, <1>5, <2>2, <2>4, <2>5, <2>6, <2>7, <2>8, <2>9, NoneCount DEF Sound, Opened,
       UpInOrder, Flowing, Broken
  <2>12. AddsUp(a, n, s) => AddsUp(b, n, s)
    BY <1>3, <2>2, <2>4, <2>5 DEF AddsUp, Numbers, Measured, Longer
  <2>13. DownInFull(k, b, n, s, sim)
    BY <1>2, <1>4, <1>5, <2>5, NoneCount, <2>12 DEF Typed, Sound, Opened, DownInFull, Silent,
       HungUp, Clean, Broken
  <2> QED BY <1>2, <2>1, <2>2, <2>4, <2>5, <2>10, <2>11, <2>13, OneAtATime DEF Sound, Typed, k
<1>6. CASE a.holds /\ k = "web" /\ a.reader /\ ~Broken(n) /\ AppSend(c)
  <2> DEFINE x == a.sent + 1
             q == Append(n.up, x)
             b == [a EXCEPT !.sent = x]
             m == [n EXCEPT !.up = q]
  <2>1. /\ kind' = kind /\ sim' = sim /\ app' = [app EXCEPT ![c] = b]
        /\ net' = [net EXCEPT ![c] = m] /\ srv' = [srv EXCEPT ![c] = s]
    BY <1>1, <1>6 DEF AppSend, WsSend, App, Net, Srv, Native, Web, Local, Lost, Broken, Size, k, a, n, s
  <2>2. x \in Nat /\ x = a.sent + 1
    BY <1>3, <1>6 DEF Numbers, Measured
  <2>3. q \in Seq(Nat)
    BY <1>2, <1>6, <2>2, CountsAppend, HeadIsNat DEF Typed, AppState, NetState, SrvState
  <2>4. Longer(q, n.up, x)
    BY <1>2, <1>6, <2>2, CountsAppend, HeadIsNat DEF Typed, AppState, NetState, SrvState
  <2> HIDE DEF x, q
  <2>5. /\ b \in AppState
        /\ b.holds = a.holds /\ b.sent = x /\ b.queue = a.queue /\ b.writer = a.writer
        /\ b.reader = a.reader /\ b.inbox = a.inbox /\ b.heard = a.heard /\ b.gone = a.gone
    BY <1>2, <2>2, <2>3, NoneSeq, <1>6 DEF Typed, AppState
  <2>6. /\ m \in NetState
        /\ m.sock = n.sock /\ m.up = q /\ m.down = n.down /\ m.cut = n.cut
        /\ m.stalled = n.stalled
    BY <1>2, <2>2, <2>3, NoneSeq, <1>6 DEF Typed, NetState
  <2> HIDE DEF b, m
  <2>7. a.queue = <<>>
    BY <1>4, <1>6 DEF Sound, Opened
  <2>8. Counts(n.up, Size(s.got)) /\ Size(s.got) + Size(n.up) + Size(a.queue) = a.sent
    BY <1>4, <1>6 DEF Sound, UpInOrder, Flowing, Broken
  <2>9. Size(a.queue) = 0 /\ \A i : Counts(a.queue, i)
    BY <2>7, NoneCount
  <2>10. x = Size(s.got) + Size(n.up) + 1 /\ Size(s.got) + Size(q) + Size(a.queue) = x
    BY <1>3, <2>2, <2>4, <2>8, <2>9 DEF Longer, Numbers, Measured
  <2>11. Counts(q, Size(s.got))
    BY <1>3, <2>4, <2>8, <2>10 DEF Longer, Numbers, Measured
  <2>12. Opened(k, b, m, s)
    BY <1>2, <1>3, <1>4, <1>6, <2>2, <2>4, <2>5, <2>6, NoneCount DEF Typed, Numbers, Sound,
       Opened, Broken, Measured, Longer
  <2>13. UpInOrder(k, b, m, s)
    BY <1>4, <1>6, <2>2, <2>4, <2>5, <2>6, <2>7, <2>8, <2>9, <2>10, <2>11, NoneCount DEF Sound,
       Opened, UpInOrder, Flowing, Broken
  <2>14. AddsUp(a, n, s) => AddsUp(b, m, s)
    BY <1>3, <2>2, <2>4, <2>5, <2>6 DEF AddsUp, Numbers, Measured, Longer
  <2>15. DownInFull(k, b, m, s, sim)
    BY <1>2, <1>4, <1>6, <2>5, <2>6, NoneCount, <2>14 DEF Typed, Sound, Opened, DownInFull,
       Silent, HungUp, Clean, Broken
  <2> QED BY <1>2, <2>1, <2>2, <2>4, <2>5, <2>6, <2>12, <2>13, <2>15, OneAtATime DEF Sound, Typed, k
<1>7. CASE a.holds /\ k = "web" /\ a.reader /\ Broken(n) /\ AppSend(c)
  <2> DEFINE x == a.sent + 1
             b == [a EXCEPT !.sent = x]
             m == [n EXCEPT !.up = n.up]
  <2>1. /\ kind' = kind /\ sim' = sim /\ app' = [app EXCEPT ![c] = b]
        /\ net' = [net EXCEPT ![c] = m] /\ srv' = [srv EXCEPT ![c] = s]
    BY <1>1, <1>7 DEF AppSend, WsSend, App, Net, Srv, Native, Web, Local, Lost, Broken, Size, k, a, n, s
  <2>2. x \in Nat /\ x = a.sent + 1
    BY <1>3, <1>7 DEF Numbers, Measured
  <2> HIDE DEF x
  <2>3. /\ b \in AppState
        /\ b.holds = a.holds /\ b.sent = x /\ b.queue = a.queue /\ b.writer = a.writer
        /\ b.reader = a.reader /\ b.inbox = a.inbox /\ b.heard = a.heard /\ b.gone = a.gone
    BY <1>2, <2>2, NoneSeq, <1>7 DEF Typed, AppState
  <2>4. /\ m \in NetState
        /\ m.sock = n.sock /\ m.up = n.up /\ m.down = n.down /\ m.cut = n.cut
        /\ m.stalled = n.stalled
    BY <1>2, <2>2, NoneSeq, <1>7 DEF Typed, NetState
  <2> HIDE DEF b, m
  <2>5. Opened(k, b, m, s)
    BY <1>2, <1>3, <1>4, <1>7, <2>2, <2>3, <2>4, NoneCount DEF Typed, Numbers, Sound, Opened,
       Broken, Measured
  <2>6. UpInOrder(k, b, m, s)
    BY <1>4, <1>7, <2>2, <2>3, <2>4, NoneCount DEF Sound, Opened, UpInOrder, Flowing, Broken
  <2>7. AddsUp(a, n, s) => AddsUp(b, m, s)
    BY <1>3, <2>2, <2>3, <2>4 DEF AddsUp, Numbers, Measured
  <2>8. DownInFull(k, b, m, s, sim)
    BY <1>2, <1>4, <1>7, <2>3, <2>4, NoneCount, <2>7 DEF Typed, Sound, Opened, DownInFull,
       Silent, HungUp, Clean, Broken
  <2> QED BY <1>2, <2>1, <2>2, <2>3, <2>4, <2>5, <2>6, <2>8, OneAtATime DEF Sound, Typed, k
<1>8. CASE a.holds /\ k = "web" /\ ~a.reader /\ a.writer /\ AppSend(c)
  <2> DEFINE x == a.sent + 1
             b == [a EXCEPT !.sent = x, !.queue = a.queue]
  <2>1. /\ kind' = kind /\ sim' = sim /\ app' = [app EXCEPT ![c] = b]
        /\ net' = [net EXCEPT ![c] = n] /\ srv' = [srv EXCEPT ![c] = s]
    BY <1>1, <1>8 DEF AppSend, WsSend, App, Net, Srv, Native, Web, Local, Lost, Broken, Size, k, a, n, s
  <2>2. x \in Nat /\ x = a.sent + 1
    BY <1>3, <1>8 DEF Numbers, Measured
  <2> HIDE DEF x
  <2>3. /\ b \in AppState
        /\ b.holds = a.holds /\ b.sent = x /\ b.queue = a.queue /\ b.writer = a.writer
        /\ b.reader = a.reader /\ b.inbox = a.inbox /\ b.heard = a.heard /\ b.gone = a.gone
    BY <1>2, <2>2, NoneSeq, <1>8 DEF Typed, AppState
  <2> HIDE DEF b
  <2>4. Opened(k, b, n, s)
    BY <1>2, <1>3, <1>4, <1>8, <2>2, <2>3, NoneCount DEF Typed, Numbers, Sound, Opened, Broken, Measured
  <2>5. UpInOrder(k, b, n, s)
    BY <1>4, <1>8, <2>2, <2>3, NoneCount DEF Sound, Opened, UpInOrder, Flowing, Broken
  <2>6. AddsUp(a, n, s) => AddsUp(b, n, s)
    BY <1>3, <2>2, <2>3 DEF AddsUp, Numbers, Measured
  <2>7. DownInFull(k, b, n, s, sim)
    BY <1>2, <1>4, <1>8, <2>3, NoneCount, <2>6 DEF Typed, Sound, Opened, DownInFull, Silent,
       HungUp, Clean, Broken
  <2> QED BY <1>2, <2>1, <2>2, <2>3, <2>4, <2>5, <2>7, OneAtATime DEF Sound, Typed, k
<1> QED BY <1>2, <1>5, <1>6, <1>7, <1>8 DEF AppSend, WsSend, Native, Web, Local, Lost, Broken, k, a,
       n, s, Typed

\* Dropping the connection keeps it: a browser shuts the socket with it.
LEMMA AppDropKeeps == ASSUME WireIInv, NEW c \in Conns, AppDrop(c) PROVE WireIInv'
<1> DEFINE k == kind[c]  a == app[c]  n == net[c]  s == srv[c]
<1>1. app = [app EXCEPT ![c] = a] /\ net = [net EXCEPT ![c] = n] /\ srv = [srv EXCEPT ![c] = s]
  BY Parts
<1>2. Typed(k, a, n, s)
  BY Parts
<1>3. Numbers(a, n, s)
  BY Parts
<1>4. Sound(k, a, n, s, sim)
  BY Parts
<1> HIDE DEF k, a, n, s
<1>5. CASE k = "web" /\ AppDrop(c)
  <2> DEFINE b == [a EXCEPT !.holds = FALSE, !.inbox = <<>>, !.queue = <<>>]
             m == [n EXCEPT !.sock = "shut"]
  <2>1. /\ kind' = kind /\ sim' = sim /\ app' = [app EXCEPT ![c] = b]
        /\ net' = [net EXCEPT ![c] = m] /\ srv' = [srv EXCEPT ![c] = s]
    BY <1>1, <1>5 DEF AppDrop, App, Net, Srv, Native, Web, Local, Lost, Broken, Size, k, a, n, s
  <2>2. /\ b \in AppState
        /\ b.holds = FALSE /\ b.sent = a.sent /\ b.queue = <<>> /\ b.writer = a.writer
        /\ b.reader = a.reader /\ b.inbox = <<>> /\ b.heard = a.heard /\ b.gone = a.gone
    BY <1>2, NoneSeq, <1>5 DEF Typed, AppState
  <2>3. /\ m \in NetState
        /\ m.sock = "shut" /\ m.up = n.up /\ m.down = n.down /\ m.cut = n.cut
        /\ m.stalled = n.stalled
    BY <1>2, NoneSeq, <1>5 DEF Typed, NetState
  <2> HIDE DEF b, m
  <2>4. Opened(k, b, m, s)
    BY <1>2, <1>3, <1>4, <1>5, <2>2, <2>3, NoneCount DEF Typed, Numbers, Sound, Opened, Broken, Measured
  <2>5. UpInOrder(k, b, m, s)
    BY <1>4, <1>5, <2>2, <2>3, NoneCount DEF Sound, Opened, UpInOrder, Flowing, Broken
  <2>6. b.holds /\ Clean(k, m, sim) => AddsUp(b, m, s)
    BY <2>2
  <2>7. DownInFull(k, b, m, s, sim)
    BY <1>2, <1>4, <1>5, <2>2, <2>3, NoneCount, <2>6 DEF Typed, Sound, Opened, DownInFull,
       Silent, HungUp, Clean, Broken
  <2> QED BY <1>2, <2>1, <2>2, <2>3, <2>4, <2>5, <2>7, OneAtATime DEF Sound, Typed, k
<1>6. CASE k # "web" /\ AppDrop(c)
  <2> DEFINE b == [a EXCEPT !.holds = FALSE, !.inbox = <<>>, !.queue = a.queue]
  <2>1. /\ kind' = kind /\ sim' = sim /\ app' = [app EXCEPT ![c] = b]
        /\ net' = [net EXCEPT ![c] = n] /\ srv' = [srv EXCEPT ![c] = s]
    BY <1>1, <1>6 DEF AppDrop, App, Net, Srv, Native, Web, Local, Lost, Broken, Size, k, a, n, s
  <2>2. /\ b \in AppState
        /\ b.holds = FALSE /\ b.sent = a.sent /\ b.queue = a.queue /\ b.writer = a.writer
        /\ b.reader = a.reader /\ b.inbox = <<>> /\ b.heard = a.heard /\ b.gone = a.gone
    BY <1>2, NoneSeq, <1>6 DEF Typed, AppState
  <2> HIDE DEF b
  <2>3. Opened(k, b, n, s)
    BY <1>2, <1>3, <1>4, <1>6, <2>2, NoneCount DEF Typed, Numbers, Sound, Opened, Broken, Measured
  <2>4. UpInOrder(k, b, n, s)
    BY <1>4, <1>6, <2>2, NoneCount DEF Sound, Opened, UpInOrder, Flowing, Broken
  <2>5. b.holds /\ Clean(k, n, sim) => AddsUp(b, n, s)
    BY <2>2
  <2>6. DownInFull(k, b, n, s, sim)
    BY <1>2, <1>4, <1>6, <2>2, NoneCount, <2>5 DEF Typed, Sound, Opened, DownInFull, Silent,
       HungUp, Clean, Broken
  <2> QED BY <1>2, <2>1, <2>2, <2>3, <2>4, <2>6, OneAtATime DEF Sound, Typed, k
<1> QED BY <1>2, <1>5, <1>6 DEF AppDrop, Native, Web, Local, Lost, Broken, k, a, n, s, Typed

\* What poll hands out has been heard, and it says Err when everything has been.
LEMMA PollKeeps == ASSUME WireIInv, NEW c \in Conns, Poll(c) PROVE WireIInv'
<1> DEFINE k == kind[c]  a == app[c]  n == net[c]  s == srv[c]
<1>1. app = [app EXCEPT ![c] = a] /\ net = [net EXCEPT ![c] = n] /\ srv = [srv EXCEPT ![c] = s]
  BY Parts
<1>2. Typed(k, a, n, s)
  BY Parts
<1>3. Numbers(a, n, s)
  BY Parts
<1>4. Sound(k, a, n, s, sim)
  BY Parts
<1> HIDE DEF k, a, n, s
<1>5. CASE Reports(c) /\ a.holds /\ ~a.gone /\ Poll(c)
  <2> DEFINE b == [a EXCEPT !.gone = TRUE]
  <2>1. /\ kind' = kind /\ sim' = sim /\ app' = [app EXCEPT ![c] = b]
        /\ net' = [net EXCEPT ![c] = n] /\ srv' = [srv EXCEPT ![c] = s]
    BY <1>1, <1>5 DEF Poll, App, Net, Srv, Native, Web, Local, Lost, Broken, Size, k, a, n, s
  <2>2. /\ b \in AppState
        /\ b.holds = a.holds /\ b.sent = a.sent /\ b.queue = a.queue /\ b.writer = a.writer
        /\ b.reader = a.reader /\ b.inbox = a.inbox /\ b.heard = a.heard /\ b.gone = TRUE
    BY <1>2, NoneSeq, <1>5 DEF Typed, AppState
  <2> HIDE DEF b
  <2>3. a.inbox = <<>> /\ (k # "local" => HungUp(k, a)) /\ (k = "local" => ~s.client /\ s.mail = <<>>)
    BY <1>2, <1>5 DEF Reports, Disconnected, HungUp, Typed, Native, Web, Local, k, a, n, s
  <2>4. Clean(k, n, sim) => Silent(k, n, s) /\ n.down = <<>> /\ s.mail = <<>>
    BY <1>2, <1>4, <1>5, <2>3 DEF Typed, Sound, Opened, DownInFull, Silent, HungUp, Clean
  <2>5. Clean(k, n, sim) => a.heard + 0 + 0 + 0 = s.mailed
    BY <1>4, <1>5, <2>3, <2>4, NoneCount DEF Sound, DownInFull, AddsUp
  <2>6. Clean(k, n, sim) => a.heard = s.mailed
    BY <1>3, <2>5 DEF Numbers
  <2>7. Opened(k, b, n, s)
    BY <1>2, <1>3, <1>4, <1>5, <2>2, NoneCount DEF Typed, Numbers, Sound, Opened, Broken, Measured
  <2>8. UpInOrder(k, b, n, s)
    BY <1>4, <1>5, <2>2, <2>3, <2>4, <2>5, <2>6, NoneCount DEF Sound, Opened, UpInOrder, Flowing, Broken
  <2>9. AddsUp(a, n, s) => AddsUp(b, n, s)
    BY <1>3, <2>2 DEF AddsUp, Numbers, Measured
  <2>10. DownInFull(k, b, n, s, sim)
    BY <1>2, <1>4, <1>5, <2>2, NoneCount, <2>9, <2>4, <2>6 DEF Typed, Sound, Opened, DownInFull,
       Silent, HungUp, Clean, Broken
  <2> QED BY <1>2, <2>1, <2>2, <2>7, <2>8, <2>10, OneAtATime DEF Sound, Typed, k
<1>6. CASE ~Reports(c) /\ a.holds /\ ~a.gone /\ k = "local" /\ Poll(c)
  <2> DEFINE x == a.heard + Size(s.mail)
             b == [a EXCEPT !.heard = x]
             r == [s EXCEPT !.mail = <<>>]
  <2>1. /\ kind' = kind /\ sim' = sim /\ app' = [app EXCEPT ![c] = b]
        /\ net' = [net EXCEPT ![c] = n] /\ srv' = [srv EXCEPT ![c] = r]
    BY <1>1, <1>6 DEF Poll, App, Net, Srv, Native, Web, Local, Lost, Broken, Size, k, a, n, s
  <2>2. x \in Nat /\ x = a.heard + Size(s.mail)
    BY <1>3, <1>6 DEF Numbers, Measured
  <2> HIDE DEF x
  <2>3. /\ b \in AppState
        /\ b.holds = a.holds /\ b.sent = a.sent /\ b.queue = a.queue /\ b.writer = a.writer
        /\ b.reader = a.reader /\ b.inbox = a.inbox /\ b.heard = x /\ b.gone = a.gone
    BY <1>2, <2>2, NoneSeq, <1>6 DEF Typed, AppState
  <2>4. /\ r \in SrvState
        /\ r.handler = s.handler /\ r.writer = s.writer /\ r.client = s.client
        /\ r.leave = s.leave /\ r.mail = <<>> /\ r.mailed = s.mailed /\ r.got = s.got
    BY <1>2, <2>2, NoneSeq, <1>6 DEF Typed, SrvState
  <2> HIDE DEF b, r
  <2>5. Opened(k, b, n, r)
    BY <1>2, <1>3, <1>4, <1>6, <2>2, <2>3, <2>4, NoneCount DEF Typed, Numbers, Sound, Opened,
       Broken, Measured
  <2>6. UpInOrder(k, b, n, r)
    BY <1>4, <1>6, <2>2, <2>3, <2>4, NoneCount DEF Sound, Opened, UpInOrder, Flowing, Broken
  <2>7. AddsUp(a, n, s) => AddsUp(b, n, r)
    BY SMTT(60), <1>3, <2>2, <2>3, <2>4, NoneCount DEF AddsUp, Numbers, Measured
  <2>8. DownInFull(k, b, n, r, sim)
    BY <1>2, <1>4, <1>6, <2>3, <2>4, NoneCount, <2>7 DEF Typed, Sound, Opened, DownInFull,
       Silent, HungUp, Clean, Broken
  <2> QED BY <1>2, <2>1, <2>2, <2>3, <2>4, <2>5, <2>6, <2>8, OneAtATime DEF Sound, Typed, k
<1>7. CASE ~Reports(c) /\ a.holds /\ ~a.gone /\ k # "local" /\ Poll(c)
  <2> DEFINE x == a.heard + Size(a.inbox)
             b == [a EXCEPT !.heard = x, !.inbox = <<>>]
  <2>1. /\ kind' = kind /\ sim' = sim /\ app' = [app EXCEPT ![c] = b]
        /\ net' = [net EXCEPT ![c] = n] /\ srv' = [srv EXCEPT ![c] = s]
    BY <1>1, <1>7 DEF Poll, App, Net, Srv, Native, Web, Local, Lost, Broken, Size, k, a, n, s
  <2>2. x \in Nat /\ x = a.heard + Size(a.inbox)
    BY <1>3, <1>7 DEF Numbers, Measured
  <2> HIDE DEF x
  <2>3. /\ b \in AppState
        /\ b.holds = a.holds /\ b.sent = a.sent /\ b.queue = a.queue /\ b.writer = a.writer
        /\ b.reader = a.reader /\ b.inbox = <<>> /\ b.heard = x /\ b.gone = a.gone
    BY <1>2, <2>2, NoneSeq, <1>7 DEF Typed, AppState
  <2> HIDE DEF b
  <2>4. Opened(k, b, n, s)
    BY <1>2, <1>3, <1>4, <1>7, <2>2, <2>3, NoneCount DEF Typed, Numbers, Sound, Opened, Broken, Measured
  <2>5. UpInOrder(k, b, n, s)
    BY <1>4, <1>7, <2>2, <2>3, NoneCount DEF Sound, Opened, UpInOrder, Flowing, Broken
  <2>6. AddsUp(a, n, s) => AddsUp(b, n, s)
    BY <1>3, <2>2, <2>3, NoneCount DEF AddsUp, Numbers, Measured
  <2>7. DownInFull(k, b, n, s, sim)
    BY <1>2, <1>4, <1>7, <2>3, NoneCount, <2>6 DEF Typed, Sound, Opened, DownInFull, Silent,
       HungUp, Clean, Broken
  <2> QED BY <1>2, <2>1, <2>2, <2>3, <2>4, <2>5, <2>7, OneAtATime DEF Sound, Typed, k
<1> QED BY <1>2, <1>5, <1>6, <1>7 DEF Poll, Native, Web, Local, Lost, Broken, k, a, n, s, Typed

\* The client's writer moves a frame from the queue to the socket.
LEMMA ClientWriterKeeps == ASSUME WireIInv, NEW c \in Conns, ClientWriter(c) PROVE WireIInv'
<1> DEFINE k == kind[c]  a == app[c]  n == net[c]  s == srv[c]
<1>1. app = [app EXCEPT ![c] = a] /\ net = [net EXCEPT ![c] = n] /\ srv = [srv EXCEPT ![c] = s]
  BY Parts
<1>2. Typed(k, a, n, s)
  BY Parts
<1>3. Numbers(a, n, s)
  BY Parts
<1>4. Sound(k, a, n, s, sim)
  BY Parts
<1> HIDE DEF k, a, n, s
<1>5. CASE k = "native" /\ a.writer /\ a.queue # <<>> /\ ~Broken(n) /\ ClientWriter(c)
  <2> DEFINE q == Tail(a.queue)
             u == Append(n.up, Head(a.queue))
             b == [a EXCEPT !.queue = q]
             m == [n EXCEPT !.up = u]
  <2>1. /\ kind' = kind /\ sim' = sim /\ app' = [app EXCEPT ![c] = b]
        /\ net' = [net EXCEPT ![c] = m] /\ srv' = [srv EXCEPT ![c] = s]
    BY <1>1, <1>5 DEF ClientWriter, App, Net, Srv, Native, Web, Local, Lost, Broken, Size, k, a, n, s
  <2>2. q \in Seq(Nat)
    BY <1>2, <1>5, CountsTail DEF Typed, AppState, NetState, SrvState
  <2>3. Shorter(q, a.queue)
    BY <1>2, <1>5, CountsTail DEF Typed, AppState, NetState, SrvState
  <2>4. u \in Seq(Nat)
    BY <1>2, <1>5, <2>3, CountsAppend, HeadIsNat DEF Typed, AppState, NetState, SrvState
  <2>5. Longer(u, n.up, Head(a.queue))
    BY <1>2, <1>5, <2>3, CountsAppend, HeadIsNat DEF Typed, AppState, NetState, SrvState
  <2> HIDE DEF q, u
  <2>6. /\ b \in AppState
        /\ b.holds = a.holds /\ b.sent = a.sent /\ b.queue = q /\ b.writer = a.writer
        /\ b.reader = a.reader /\ b.inbox = a.inbox /\ b.heard = a.heard /\ b.gone = a.gone
    BY <1>2, <2>2, <2>4, NoneSeq, <1>5 DEF Typed, AppState
  <2>7. /\ m \in NetState
        /\ m.sock = n.sock /\ m.up = u /\ m.down = n.down /\ m.cut = n.cut
        /\ m.stalled = n.stalled
    BY <1>2, <2>2, <2>4, NoneSeq, <1>5 DEF Typed, NetState
  <2> HIDE DEF b, m
  <2>8. Size(s.got) + Size(n.up) \in Nat
    BY <1>3 DEF Numbers, Measured
  <2>9. Counts(a.queue, Size(s.got) + Size(n.up)) /\ Size(s.got) + Size(n.up) + Size(a.queue) = a.sent
    BY <1>4, <1>5 DEF Sound, UpInOrder, Flowing, Broken
  <2>10. Head(a.queue) = (Size(s.got) + Size(n.up)) + 1 /\ Counts(q, (Size(s.got) + Size(n.up)) + 1)
    BY <2>3, <2>8, <2>9 DEF Shorter
  <2>11. Counts(u, Size(s.got))
    BY <1>4, <1>3, <2>5, <2>10 DEF Longer, Sound, UpInOrder, Numbers, Measured
  <2>12. Size(s.got) + Size(u) = (Size(s.got) + Size(n.up)) + 1 /\ Size(s.got) + Size(u) + Size(q) = a.sent
    BY <1>3, <2>3, <2>5, <2>9 DEF Longer, Shorter, Numbers, Measured
  <2>13. Opened(k, b, m, s)
    BY <1>2, <1>3, <1>4, <1>5, <2>3, <2>5, <2>6, <2>7, NoneCount DEF Typed, Numbers, Sound,
       Opened, Broken, Measured, Shorter, Longer
  <2>14. UpInOrder(k, b, m, s)
    BY <1>4, <1>5, <2>3, <2>5, <2>6, <2>7, <2>8, <2>9, <2>10, <2>11, <2>12, NoneCount DEF Sound,
       Opened, UpInOrder, Flowing, Broken
  <2>15. AddsUp(a, n, s) => AddsUp(b, m, s)
    BY <1>3, <2>3, <2>5, <2>6, <2>7 DEF AddsUp, Numbers, Measured, Shorter, Longer
  <2>16. DownInFull(k, b, m, s, sim)
    BY <1>2, <1>4, <1>5, <2>6, <2>7, NoneCount, <2>15 DEF Typed, Sound, Opened, DownInFull,
       Silent, HungUp, Clean, Broken
  <2> QED BY <1>2, <2>1, <2>3, <2>5, <2>6, <2>7, <2>13, <2>14, <2>16, OneAtATime DEF Sound, Typed, k
<1>6. CASE k = "native" /\ a.writer /\ a.queue # <<>> /\ Broken(n) /\ ClientWriter(c)
  <2> DEFINE b == [a EXCEPT !.queue = <<>>, !.writer = FALSE]
  <2>1. /\ kind' = kind /\ sim' = sim /\ app' = [app EXCEPT ![c] = b]
        /\ net' = [net EXCEPT ![c] = n] /\ srv' = [srv EXCEPT ![c] = s]
    BY <1>1, <1>6 DEF ClientWriter, App, Net, Srv, Native, Web, Local, Lost, Broken, Size, k, a, n, s
  <2>2. /\ b \in AppState
        /\ b.holds = a.holds /\ b.sent = a.sent /\ b.queue = <<>> /\ b.writer = FALSE
        /\ b.reader = a.reader /\ b.inbox = a.inbox /\ b.heard = a.heard /\ b.gone = a.gone
    BY <1>2, NoneSeq, <1>6 DEF Typed, AppState
  <2> HIDE DEF b
  <2>3. Opened(k, b, n, s)
    BY <1>2, <1>3, <1>4, <1>6, <2>2, NoneCount DEF Typed, Numbers, Sound, Opened, Broken, Measured
  <2>4. UpInOrder(k, b, n, s)
    BY <1>4, <1>6, <2>2, NoneCount DEF Sound, Opened, UpInOrder, Flowing, Broken
  <2>5. AddsUp(a, n, s) => AddsUp(b, n, s)
    BY <1>3, <2>2, NoneCount DEF AddsUp, Numbers, Measured
  <2>6. DownInFull(k, b, n, s, sim)
    BY <1>2, <1>4, <1>6, <2>2, NoneCount, <2>5 DEF Typed, Sound, Opened, DownInFull, Silent,
       HungUp, Clean, Broken
  <2> QED BY <1>2, <2>1, <2>2, <2>3, <2>4, <2>6, OneAtATime DEF Sound, Typed, k
<1>7. CASE k = "native" /\ a.writer /\ a.queue = <<>> /\ ~a.holds /\ ClientWriter(c)
  <2> DEFINE b == [a EXCEPT !.writer = FALSE]
             m == [n EXCEPT !.sock = "shut"]
  <2>1. /\ kind' = kind /\ sim' = sim /\ app' = [app EXCEPT ![c] = b]
        /\ net' = [net EXCEPT ![c] = m] /\ srv' = [srv EXCEPT ![c] = s]
    BY <1>1, <1>7 DEF ClientWriter, App, Net, Srv, Native, Web, Local, Lost, Broken, Size, k, a, n, s
  <2>2. /\ b \in AppState
        /\ b.holds = a.holds /\ b.sent = a.sent /\ b.queue = a.queue /\ b.writer = FALSE
        /\ b.reader = a.reader /\ b.inbox = a.inbox /\ b.heard = a.heard /\ b.gone = a.gone
    BY <1>2, NoneSeq, <1>7 DEF Typed, AppState
  <2>3. /\ m \in NetState
        /\ m.sock = "shut" /\ m.up = n.up /\ m.down = n.down /\ m.cut = n.cut
        /\ m.stalled = n.stalled
    BY <1>2, NoneSeq, <1>7 DEF Typed, NetState
  <2> HIDE DEF b, m
  <2>4. Opened(k, b, m, s)
    BY <1>2, <1>3, <1>4, <1>7, <2>2, <2>3, NoneCount DEF Typed, Numbers, Sound, Opened, Broken, Measured
  <2>5. UpInOrder(k, b, m, s)
    BY <1>4, <1>7, <2>2, <2>3, NoneCount DEF Sound, Opened, UpInOrder, Flowing, Broken
  <2>6. AddsUp(a, n, s) => AddsUp(b, m, s)
    BY <1>3, <2>2, <2>3 DEF AddsUp, Numbers, Measured
  <2>7. DownInFull(k, b, m, s, sim)
    BY <1>2, <1>4, <1>7, <2>2, <2>3, NoneCount, <2>6 DEF Typed, Sound, Opened, DownInFull,
       Silent, HungUp, Clean, Broken
  <2> QED BY <1>2, <2>1, <2>2, <2>3, <2>4, <2>5, <2>7, OneAtATime DEF Sound, Typed, k
<1> QED BY <1>2, <1>5, <1>6, <1>7 DEF ClientWriter, Native, Web, Local, Lost, Broken, k, a, n, s, Typed

\* The client's reader moves a message from the socket to the inbox, and ends when there is none.
LEMMA ClientReaderKeeps == ASSUME WireIInv, NEW c \in Conns, ClientReader(c) PROVE WireIInv'
<1> DEFINE k == kind[c]  a == app[c]  n == net[c]  s == srv[c]
<1>1. app = [app EXCEPT ![c] = a] /\ net = [net EXCEPT ![c] = n] /\ srv = [srv EXCEPT ![c] = s]
  BY Parts
<1>2. Typed(k, a, n, s)
  BY Parts
<1>3. Numbers(a, n, s)
  BY Parts
<1>4. Sound(k, a, n, s, sim)
  BY Parts
<1> HIDE DEF k, a, n, s
<1>5. CASE k = "native" /\ a.reader /\ n.down # <<>> /\ a.holds /\ ClientReader(c)
  <2> DEFINE q == Tail(n.down)
             u == Append(a.inbox, Head(n.down))
             b == [a EXCEPT !.inbox = u]
             m == [n EXCEPT !.down = q]
  <2>1. /\ kind' = kind /\ sim' = sim /\ app' = [app EXCEPT ![c] = b]
        /\ net' = [net EXCEPT ![c] = m] /\ srv' = [srv EXCEPT ![c] = s]
    BY <1>1, <1>5 DEF ClientReader, App, Net, Srv, Native, Web, Local, Lost, Broken, Size, k, a, n, s
  <2>2. q \in Seq(Nat)
    BY <1>2, <1>5, CountsTail DEF Typed, AppState, NetState, SrvState
  <2>3. Shorter(q, n.down)
    BY <1>2, <1>5, CountsTail DEF Typed, AppState, NetState, SrvState
  <2>4. u \in Seq(Nat)
    BY <1>2, <1>5, <2>3, CountsAppend, HeadIsNat DEF Typed, AppState, NetState, SrvState
  <2>5. Longer(u, a.inbox, Head(n.down))
    BY <1>2, <1>5, <2>3, CountsAppend, HeadIsNat DEF Typed, AppState, NetState, SrvState
  <2> HIDE DEF q, u
  <2>6. /\ b \in AppState
        /\ b.holds = a.holds /\ b.sent = a.sent /\ b.queue = a.queue /\ b.writer = a.writer
        /\ b.reader = a.reader /\ b.inbox = u /\ b.heard = a.heard /\ b.gone = a.gone
    BY <1>2, <2>2, <2>4, NoneSeq, <1>5 DEF Typed, AppState
  <2>7. /\ m \in NetState
        /\ m.sock = n.sock /\ m.up = n.up /\ m.down = q /\ m.cut = n.cut
        /\ m.stalled = n.stalled
    BY <1>2, <2>2, <2>4, NoneSeq, <1>5 DEF Typed, NetState
  <2> HIDE DEF b, m
  <2>8. Opened(k, b, m, s)
    BY <1>2, <1>3, <1>4, <1>5, <2>3, <2>5, <2>6, <2>7, NoneCount DEF Typed, Numbers, Sound,
       Opened, Broken, Measured, Shorter, Longer
  <2>9. UpInOrder(k, b, m, s)
    BY <1>4, <1>5, <2>3, <2>5, <2>6, <2>7, NoneCount DEF Sound, Opened, UpInOrder, Flowing, Broken
  <2>10. AddsUp(a, n, s) => AddsUp(b, m, s)
    BY <1>3, <2>3, <2>5, <2>6, <2>7 DEF AddsUp, Numbers, Measured, Shorter, Longer
  <2>11. DownInFull(k, b, m, s, sim)
    BY <1>2, <1>4, <1>5, <2>6, <2>7, NoneCount, <2>10 DEF Typed, Sound, Opened, DownInFull,
       Silent, HungUp, Clean, Broken
  <2> QED BY <1>2, <2>1, <2>3, <2>5, <2>6, <2>7, <2>8, <2>9, <2>11, OneAtATime DEF Sound, Typed, k
<1>6. CASE k = "native" /\ a.reader /\ (a.holds => n.down = <<>> /\ Broken(n)) /\ (n.down = <<>> \/ ~a.holds) /\ ClientReader(c)
  <2> DEFINE b == [a EXCEPT !.reader = FALSE]
  <2>1. /\ kind' = kind /\ sim' = sim /\ app' = [app EXCEPT ![c] = b]
        /\ net' = [net EXCEPT ![c] = n] /\ srv' = [srv EXCEPT ![c] = s]
    BY <1>1, <1>6 DEF ClientReader, App, Net, Srv, Native, Web, Local, Lost, Broken, Size, k, a, n, s
  <2>2. /\ b \in AppState
        /\ b.holds = a.holds /\ b.sent = a.sent /\ b.queue = a.queue /\ b.writer = a.writer
        /\ b.reader = FALSE /\ b.inbox = a.inbox /\ b.heard = a.heard /\ b.gone = a.gone
    BY <1>2, NoneSeq, <1>6 DEF Typed, AppState
  <2> HIDE DEF b
  <2>3. Opened(k, b, n, s)
    BY <1>2, <1>3, <1>4, <1>6, <2>2, NoneCount DEF Typed, Numbers, Sound, Opened, Broken, Measured
  <2>4. UpInOrder(k, b, n, s)
    BY <1>4, <1>6, <2>2, NoneCount DEF Sound, Opened, UpInOrder, Flowing, Broken
  <2>5. AddsUp(a, n, s) => AddsUp(b, n, s)
    BY <1>3, <2>2 DEF AddsUp, Numbers, Measured
  <2>6. DownInFull(k, b, n, s, sim)
    BY <1>2, <1>4, <1>6, <2>2, NoneCount, <2>5 DEF Typed, Sound, Opened, DownInFull, Silent,
       HungUp, Clean, Broken
  <2> QED BY <1>2, <2>1, <2>2, <2>3, <2>4, <2>6, OneAtATime DEF Sound, Typed, k
<1> QED BY <1>2, <1>5, <1>6 DEF ClientReader, Native, Web, Local, Lost, Broken, k, a, n, s, Typed

\* The events of a browser keep it.
LEMMA BrowserKeeps == ASSUME WireIInv, NEW c \in Conns, Browser(c) PROVE WireIInv'
<1> DEFINE k == kind[c]  a == app[c]  n == net[c]  s == srv[c]
<1>1. app = [app EXCEPT ![c] = a] /\ net = [net EXCEPT ![c] = n] /\ srv = [srv EXCEPT ![c] = s]
  BY Parts
<1>2. Typed(k, a, n, s)
  BY Parts
<1>3. Numbers(a, n, s)
  BY Parts
<1>4. Sound(k, a, n, s, sim)
  BY Parts
<1> HIDE DEF k, a, n, s
<1>5. CASE k = "web" /\ a.holds /\ ~a.writer /\ ~a.reader /\ ~Broken(n) /\ Browser(c)
  <2> DEFINE u == n.up \o a.queue
             b == [a EXCEPT !.reader = TRUE, !.queue = <<>>]
             m == [n EXCEPT !.up = u]
  <2>1. /\ kind' = kind /\ sim' = sim /\ app' = [app EXCEPT ![c] = b]
        /\ net' = [net EXCEPT ![c] = m] /\ srv' = [srv EXCEPT ![c] = s]
    BY <1>1, <1>5 DEF Browser, App, Net, Srv, Native, Web, Local, Lost, Broken, Size, k, a, n, s
  <2>2. u \in Seq(Nat)
    BY <1>2, <1>5, CountsJoin DEF Typed, AppState, NetState, SrvState
  <2>3. Joined(u, n.up, a.queue)
    BY <1>2, <1>5, CountsJoin DEF Typed, AppState, NetState, SrvState
  <2> HIDE DEF u
  <2>4. /\ b \in AppState
        /\ b.holds = a.holds /\ b.sent = a.sent /\ b.queue = <<>> /\ b.writer = a.writer
        /\ b.reader = TRUE /\ b.inbox = a.inbox /\ b.heard = a.heard /\ b.gone = a.gone
    BY <1>2, <2>2, NoneSeq, <1>5 DEF Typed, AppState
  <2>5. /\ m \in NetState
        /\ m.sock = n.sock /\ m.up = u /\ m.down = n.down /\ m.cut = n.cut
        /\ m.stalled = n.stalled
    BY <1>2, <2>2, NoneSeq, <1>5 DEF Typed, NetState
  <2> HIDE DEF b, m
  <2>6. Counts(n.up, Size(s.got)) /\ Counts(a.queue, Size(s.got) + Size(n.up)) /\ Size(s.got) + Size(n.up) + Size(a.queue) = a.sent
    BY <1>4, <1>5 DEF Sound, UpInOrder, Flowing, Broken
  <2>7. Counts(u, Size(s.got)) /\ Size(u) = Size(n.up) + Size(a.queue)
    BY <1>3, <2>3, <2>6 DEF Joined, Numbers, Measured
  <2>8. Size(s.got) + Size(u) + 0 = a.sent
    BY <1>3, <2>6, <2>7 DEF Numbers, Measured
  <2>9. Opened(k, b, m, s)
    BY <1>2, <1>3, <1>4, <1>5, <2>3, <2>4, <2>5, NoneCount DEF Typed, Numbers, Sound, Opened,
       Broken, Measured, Joined
  <2>10. UpInOrder(k, b, m, s)
    BY <1>4, <1>5, <2>3, <2>4, <2>5, <2>6, <2>7, <2>8, NoneCount DEF Sound, Opened, UpInOrder,
       Flowing, Broken
  <2>11. AddsUp(a, n, s) => AddsUp(b, m, s)
    BY <1>3, <2>3, <2>4, <2>5, NoneCount DEF AddsUp, Numbers, Measured, Joined
  <2>12. DownInFull(k, b, m, s, sim)
    BY <1>2, <1>4, <1>5, <2>4, <2>5, NoneCount, <2>11 DEF Typed, Sound, Opened, DownInFull,
       Silent, HungUp, Clean, Broken
  <2> QED BY <1>2, <2>1, <2>3, <2>4, <2>5, <2>9, <2>10, <2>12, OneAtATime DEF Sound, Typed, k
<1>6. CASE k = "web" /\ a.holds /\ ~a.writer /\ a.reader /\ n.down # <<>> /\ Browser(c)
  <2> DEFINE q == Tail(n.down)
             u == Append(a.inbox, Head(n.down))
             b == [a EXCEPT !.inbox = u]
             m == [n EXCEPT !.down = q]
  <2>1. /\ kind' = kind /\ sim' = sim /\ app' = [app EXCEPT ![c] = b]
        /\ net' = [net EXCEPT ![c] = m] /\ srv' = [srv EXCEPT ![c] = s]
    BY <1>1, <1>6 DEF Browser, App, Net, Srv, Native, Web, Local, Lost, Broken, Size, k, a, n, s
  <2>2. q \in Seq(Nat)
    BY <1>2, <1>6, CountsTail DEF Typed, AppState, NetState, SrvState
  <2>3. Shorter(q, n.down)
    BY <1>2, <1>6, CountsTail DEF Typed, AppState, NetState, SrvState
  <2>4. u \in Seq(Nat)
    BY <1>2, <1>6, <2>3, CountsAppend, HeadIsNat DEF Typed, AppState, NetState, SrvState
  <2>5. Longer(u, a.inbox, Head(n.down))
    BY <1>2, <1>6, <2>3, CountsAppend, HeadIsNat DEF Typed, AppState, NetState, SrvState
  <2> HIDE DEF q, u
  <2>6. /\ b \in AppState
        /\ b.holds = a.holds /\ b.sent = a.sent /\ b.queue = a.queue /\ b.writer = a.writer
        /\ b.reader = a.reader /\ b.inbox = u /\ b.heard = a.heard /\ b.gone = a.gone
    BY <1>2, <2>2, <2>4, NoneSeq, <1>6 DEF Typed, AppState
  <2>7. /\ m \in NetState
        /\ m.sock = n.sock /\ m.up = n.up /\ m.down = q /\ m.cut = n.cut
        /\ m.stalled = n.stalled
    BY <1>2, <2>2, <2>4, NoneSeq, <1>6 DEF Typed, NetState
  <2> HIDE DEF b, m
  <2>8. Opened(k, b, m, s)
    BY <1>2, <1>3, <1>4, <1>6, <2>3, <2>5, <2>6, <2>7, NoneCount DEF Typed, Numbers, Sound,
       Opened, Broken, Measured, Shorter, Longer
  <2>9. UpInOrder(k, b, m, s)
    BY <1>4, <1>6, <2>3, <2>5, <2>6, <2>7, NoneCount DEF Sound, Opened, UpInOrder, Flowing, Broken
  <2>10. AddsUp(a, n, s) => AddsUp(b, m, s)
    BY <1>3, <2>3, <2>5, <2>6, <2>7 DEF AddsUp, Numbers, Measured, Shorter, Longer
  <2>11. DownInFull(k, b, m, s, sim)
    BY <1>2, <1>4, <1>6, <2>6, <2>7, NoneCount, <2>10 DEF Typed, Sound, Opened, DownInFull,
       Silent, HungUp, Clean, Broken
  <2> QED BY <1>2, <2>1, <2>3, <2>5, <2>6, <2>7, <2>8, <2>9, <2>11, OneAtATime DEF Sound, Typed, k
<1>7. CASE k = "web" /\ a.holds /\ ~a.writer /\ Broken(n) /\ n.down = <<>> /\ Browser(c)
  <2> DEFINE b == [a EXCEPT !.writer = TRUE, !.reader = FALSE]
  <2>1. /\ kind' = kind /\ sim' = sim /\ app' = [app EXCEPT ![c] = b]
        /\ net' = [net EXCEPT ![c] = n] /\ srv' = [srv EXCEPT ![c] = s]
    BY <1>1, <1>7 DEF Browser, App, Net, Srv, Native, Web, Local, Lost, Broken, Size, k, a, n, s
  <2>2. /\ b \in AppState
        /\ b.holds = a.holds /\ b.sent = a.sent /\ b.queue = a.queue /\ b.writer = TRUE
        /\ b.reader = FALSE /\ b.inbox = a.inbox /\ b.heard = a.heard /\ b.gone = a.gone
    BY <1>2, NoneSeq, <1>7 DEF Typed, AppState
  <2> HIDE DEF b
  <2>3. Opened(k, b, n, s)
    BY <1>2, <1>3, <1>4, <1>7, <2>2, NoneCount DEF Typed, Numbers, Sound, Opened, Broken, Measured
  <2>4. UpInOrder(k, b, n, s)
    BY <1>4, <1>7, <2>2, NoneCount DEF Sound, Opened, UpInOrder, Flowing, Broken
  <2>5. AddsUp(a, n, s) => AddsUp(b, n, s)
    BY <1>3, <2>2 DEF AddsUp, Numbers, Measured
  <2>6. DownInFull(k, b, n, s, sim)
    BY <1>2, <1>4, <1>7, <2>2, NoneCount, <2>5 DEF Typed, Sound, Opened, DownInFull, Silent,
       HungUp, Clean, Broken
  <2> QED BY <1>2, <2>1, <2>2, <2>3, <2>4, <2>6, OneAtATime DEF Sound, Typed, k
<1> QED BY <1>2, <1>5, <1>6, <1>7 DEF Browser, Native, Web, Local, Lost, Broken, k, a, n, s, Typed

\* A socket that is accepted keeps it, and so does one that is over the cap.
LEMMA AcceptKeeps == ASSUME WireIInv, NEW c \in Conns, Accept(c) PROVE WireIInv'
<1> DEFINE k == kind[c]  a == app[c]  n == net[c]  s == srv[c]
<1>1. app = [app EXCEPT ![c] = a] /\ net = [net EXCEPT ![c] = n] /\ srv = [srv EXCEPT ![c] = s]
  BY Parts
<1>2. Typed(k, a, n, s)
  BY Parts
<1>3. Numbers(a, n, s)
  BY Parts
<1>4. Sound(k, a, n, s, sim)
  BY Parts
<1> HIDE DEF k, a, n, s
<1>5. CASE n.sock = "waiting" /\ Srv(c, [srv[c] EXCEPT !.handler = "probe"]) /\ Net(c, [net[c] EXCEPT !.sock = "open"]) /\ Accept(c)
  <2> DEFINE m == [n EXCEPT !.sock = "open"]
             r == [s EXCEPT !.handler = "probe"]
  <2>1. /\ kind' = kind /\ sim' = sim /\ app' = [app EXCEPT ![c] = a]
        /\ net' = [net EXCEPT ![c] = m] /\ srv' = [srv EXCEPT ![c] = r]
    BY <1>1, <1>5 DEF Accept, Shut, App, Net, Srv, Native, Web, Local, Lost, Broken, Size, k, a, n, s
  <2>2. /\ m \in NetState
        /\ m.sock = "open" /\ m.up = n.up /\ m.down = n.down /\ m.cut = n.cut
        /\ m.stalled = n.stalled
    BY <1>2, NoneSeq, <1>5 DEF Typed, NetState
  <2>3. /\ r \in SrvState
        /\ r.handler = "probe" /\ r.writer = s.writer /\ r.client = s.client
        /\ r.leave = s.leave /\ r.mail = s.mail /\ r.mailed = s.mailed /\ r.got = s.got
    BY <1>2, NoneSeq, <1>5 DEF Typed, SrvState
  <2> HIDE DEF m, r
  <2>4. Opened(k, a, m, r)
    BY <1>2, <1>3, <1>4, <1>5, <2>2, <2>3, NoneCount DEF Typed, Numbers, Sound, Opened, Broken, Measured
  <2>5. UpInOrder(k, a, m, r)
    BY <1>4, <1>5, <2>2, <2>3, NoneCount DEF Sound, Opened, UpInOrder, Flowing, Broken
  <2>6. AddsUp(a, n, s) => AddsUp(a, m, r)
    BY <1>3, <2>2, <2>3 DEF AddsUp, Numbers, Measured
  <2>7. DownInFull(k, a, m, r, sim)
    BY <1>2, <1>4, <1>5, <2>2, <2>3, NoneCount, <2>6 DEF Typed, Sound, Opened, DownInFull,
       Silent, HungUp, Clean, Broken
  <2> QED BY <1>2, <2>1, <2>2, <2>3, <2>4, <2>5, <2>7, OneAtATime DEF Sound, Typed, k
<1>6. CASE n.sock = "waiting" /\ UNCHANGED srv /\ Net(c, Shut(c)) /\ Accept(c)
  <2> DEFINE m == [n EXCEPT !.sock = "shut"]
  <2>1. /\ kind' = kind /\ sim' = sim /\ app' = [app EXCEPT ![c] = a]
        /\ net' = [net EXCEPT ![c] = m] /\ srv' = [srv EXCEPT ![c] = s]
    BY <1>1, <1>6 DEF Accept, Shut, App, Net, Srv, Native, Web, Local, Lost, Broken, Size, k, a, n, s
  <2>2. /\ m \in NetState
        /\ m.sock = "shut" /\ m.up = n.up /\ m.down = n.down /\ m.cut = n.cut
        /\ m.stalled = n.stalled
    BY <1>2, NoneSeq, <1>6 DEF Typed, NetState
  <2> HIDE DEF m
  <2>3. Opened(k, a, m, s)
    BY <1>2, <1>3, <1>4, <1>6, <2>2, NoneCount DEF Typed, Numbers, Sound, Opened, Broken, Measured
  <2>4. UpInOrder(k, a, m, s)
    BY <1>4, <1>6, <2>2, NoneCount DEF Sound, Opened, UpInOrder, Flowing, Broken
  <2>5. AddsUp(a, n, s) => AddsUp(a, m, s)
    BY <1>3, <2>2 DEF AddsUp, Numbers, Measured
  <2>6. DownInFull(k, a, m, s, sim)
    BY <1>2, <1>4, <1>6, <2>2, NoneCount, <2>5 DEF Typed, Sound, Opened, DownInFull, Silent,
       HungUp, Clean, Broken
  <2> QED BY <1>2, <2>1, <2>2, <2>3, <2>4, <2>6, OneAtATime DEF Sound, Typed, k
<1> QED BY <1>2, <1>5, <1>6 DEF Accept, Shut, Native, Web, Local, Lost, Broken, k, a, n, s, Typed

\* A handler that has found out what it talks to keeps it.
LEMMA ProbeKeeps == ASSUME WireIInv, NEW c \in Conns, Probe(c) PROVE WireIInv'
<1> DEFINE k == kind[c]  a == app[c]  n == net[c]  s == srv[c]
<1>1. app = [app EXCEPT ![c] = a] /\ net = [net EXCEPT ![c] = n] /\ srv = [srv EXCEPT ![c] = s]
  BY Parts
<1>2. Typed(k, a, n, s)
  BY Parts
<1>3. Numbers(a, n, s)
  BY Parts
<1>4. Sound(k, a, n, s, sim)
  BY Parts
<1> HIDE DEF k, a, n, s
<1>5. CASE s.handler = "probe" /\ ~Broken(n) /\ Probe(c)
  <2> DEFINE r == [s EXCEPT !.handler = "first"]
  <2>1. /\ kind' = kind /\ sim' = sim /\ app' = [app EXCEPT ![c] = a]
        /\ net' = [net EXCEPT ![c] = n] /\ srv' = [srv EXCEPT ![c] = r]
    BY <1>1, <1>5 DEF Probe, App, Net, Srv, Native, Web, Local, Lost, Broken, Size, k, a, n, s
  <2>2. /\ r \in SrvState
        /\ r.handler = "first" /\ r.writer = s.writer /\ r.client = s.client
        /\ r.leave = s.leave /\ r.mail = s.mail /\ r.mailed = s.mailed /\ r.got = s.got
    BY <1>2, NoneSeq, <1>5 DEF Typed, SrvState
  <2> HIDE DEF r
  <2>3. Opened(k, a, n, r)
    BY <1>2, <1>3, <1>4, <1>5, <2>2, NoneCount DEF Typed, Numbers, Sound, Opened, Broken, Measured
  <2>4. UpInOrder(k, a, n, r)
    BY <1>4, <1>5, <2>2, NoneCount DEF Sound, Opened, UpInOrder, Flowing, Broken
  <2>5. AddsUp(a, n, s) => AddsUp(a, n, r)
    BY <1>3, <2>2 DEF AddsUp, Numbers, Measured
  <2>6. DownInFull(k, a, n, r, sim)
    BY <1>2, <1>4, <1>5, <2>2, NoneCount, <2>5 DEF Typed, Sound, Opened, DownInFull, Silent,
       HungUp, Clean, Broken
  <2> QED BY <1>2, <2>1, <2>2, <2>3, <2>4, <2>6, OneAtATime DEF Sound, Typed, k
<1> QED BY <1>2, <1>5 DEF Probe, Native, Web, Local, Lost, Broken, k, a, n, s, Typed

\* A handler that waited long enough keeps it: it has said nothing.
LEMMA GivesUpKeeps == ASSUME WireIInv, NEW c \in Conns, GivesUp(c) PROVE WireIInv'
<1> DEFINE k == kind[c]  a == app[c]  n == net[c]  s == srv[c]
<1>1. app = [app EXCEPT ![c] = a] /\ net = [net EXCEPT ![c] = n] /\ srv = [srv EXCEPT ![c] = s]
  BY Parts
<1>2. Typed(k, a, n, s)
  BY Parts
<1>3. Numbers(a, n, s)
  BY Parts
<1>4. Sound(k, a, n, s, sim)
  BY Parts
<1> HIDE DEF k, a, n, s
<1>5. CASE k # "local" /\ s.handler \in {"probe", "first"} /\ GivesUp(c)
  <2> DEFINE m == [n EXCEPT !.sock = "shut"]
             r == [s EXCEPT !.handler = "over"]
  <2>1. /\ kind' = kind /\ sim' = sim /\ app' = [app EXCEPT ![c] = a]
        /\ net' = [net EXCEPT ![c] = m] /\ srv' = [srv EXCEPT ![c] = r]
    BY <1>1, <1>5 DEF GivesUp, Over, Shut, App, Net, Srv, Native, Web, Local, Lost, Broken,
       Size, k, a, n, s
  <2>2. /\ m \in NetState
        /\ m.sock = "shut" /\ m.up = n.up /\ m.down = n.down /\ m.cut = n.cut
        /\ m.stalled = n.stalled
    BY <1>2, NoneSeq, <1>5 DEF Typed, NetState
  <2>3. /\ r \in SrvState
        /\ r.handler = "over" /\ r.writer = s.writer /\ r.client = s.client /\ r.leave = s.leave
        /\ r.mail = s.mail /\ r.mailed = s.mailed /\ r.got = s.got
    BY <1>2, NoneSeq, <1>5 DEF Typed, SrvState
  <2> HIDE DEF m, r
  <2>4. Opened(k, a, m, r)
    BY <1>2, <1>3, <1>4, <1>5, <2>2, <2>3, NoneCount DEF Typed, Numbers, Sound, Opened, Broken, Measured
  <2>5. UpInOrder(k, a, m, r)
    BY <1>4, <1>5, <2>2, <2>3, NoneCount DEF Sound, Opened, UpInOrder, Flowing, Broken
  <2>6. AddsUp(a, n, s) => AddsUp(a, m, r)
    BY <1>3, <2>2, <2>3 DEF AddsUp, Numbers, Measured
  <2>7. DownInFull(k, a, m, r, sim)
    BY <1>2, <1>4, <1>5, <2>2, <2>3, NoneCount, <2>6 DEF Typed, Sound, Opened, DownInFull,
       Silent, HungUp, Clean, Broken
  <2> QED BY <1>2, <2>1, <2>2, <2>3, <2>4, <2>5, <2>7, OneAtATime DEF Sound, Typed, k
<1> QED BY <1>2, <1>5 DEF GivesUp, Over, Shut, Native, Web, Local, Lost, Broken, k, a, n, s, Typed

\* The first frame is handed on as the first, and what it is answered is the first message.
LEMMA RouteKeeps == ASSUME WireIInv, NEW c \in Conns, Route(c) PROVE WireIInv'
<1> DEFINE k == kind[c]  a == app[c]  n == net[c]  s == srv[c]
<1>1. app = [app EXCEPT ![c] = a] /\ net = [net EXCEPT ![c] = n] /\ srv = [srv EXCEPT ![c] = s]
  BY Parts
<1>2. Typed(k, a, n, s)
  BY Parts
<1>3. Numbers(a, n, s)
  BY Parts
<1>4. Sound(k, a, n, s, sim)
  BY Parts
<1> HIDE DEF k, a, n, s
<1>5. CASE s.handler = "first" /\ k # "local" /\ n.up # <<>> /\ Joins(c)
  <2> DEFINE u == Tail(n.up)
             g == Append(s.got, Head(n.up))
             e == <<1>>
             m == [n EXCEPT !.up = u]
             r == [s EXCEPT !.got = g, !.handler = "serving", !.writer = Native(c), !.client = TRUE, !.mail = e, !.mailed = 1]
  <2>1. /\ kind' = kind /\ sim' = sim /\ app' = [app EXCEPT ![c] = a]
        /\ net' = [net EXCEPT ![c] = m] /\ srv' = [srv EXCEPT ![c] = r]
    BY <1>1, <1>5 DEF Route, Joins, Refused, Unanswered, Over, Handed, Rest, App, Net, Srv,
       Native, Web, Local, Lost, Broken, Size, k, a, n, s
  <2>2. u \in Seq(Nat)
    BY <1>2, <1>5, CountsTail DEF Typed, AppState, NetState, SrvState
  <2>3. Shorter(u, n.up)
    BY <1>2, <1>5, CountsTail DEF Typed, AppState, NetState, SrvState
  <2>4. g \in Seq(Nat)
    BY <1>2, <1>5, <2>3, CountsAppend, HeadIsNat DEF Typed, AppState, NetState, SrvState
  <2>5. Longer(g, s.got, Head(n.up))
    BY <1>2, <1>5, <2>3, CountsAppend, HeadIsNat DEF Typed, AppState, NetState, SrvState
  <2>6. e \in Seq(Nat)
    BY <1>2, <1>5, <2>3, <2>5, OneCounts DEF Typed, AppState, NetState, SrvState
  <2>7. Longer(e, <<>>, 1)
    BY <1>2, <1>5, <2>3, <2>5, OneCounts DEF Typed, AppState, NetState, SrvState
  <2> HIDE DEF u, g, e
  <2>8. /\ m \in NetState
        /\ m.sock = n.sock /\ m.up = u /\ m.down = n.down /\ m.cut = n.cut
        /\ m.stalled = n.stalled
    BY <1>2, <2>2, <2>4, <2>6, NoneSeq, <1>5 DEF Typed, NetState
  <2>9. /\ r \in SrvState
        /\ r.handler = "serving" /\ r.writer = (k = "native") /\ r.client = TRUE
        /\ r.leave = s.leave /\ r.mail = e /\ r.mailed = 1 /\ r.got = g
    BY <1>2, <2>2, <2>4, <2>6, NoneSeq, <1>5 DEF Typed, SrvState, Native, k
  <2> HIDE DEF m, r
  <2>10. Counts(s.got, 0) /\ Counts(n.up, Size(s.got))
    BY <1>4 DEF Sound, UpInOrder
  <2>11. Flowing(k, n, s) => Counts(a.queue, Size(s.got) + Size(n.up)) /\ Size(s.got) + Size(n.up) + Size(a.queue) = a.sent
    BY <1>4 DEF Sound, UpInOrder
  <2>12. Head(n.up) = Size(s.got) + 1 /\ Counts(u, Size(s.got) + 1)
    BY <1>3, <2>3, <2>10 DEF Shorter, Numbers, Measured
  <2>13. Counts(g, 0) /\ Size(g) = Size(s.got) + 1
    BY <1>3, <2>5, <2>10, <2>12 DEF Longer, Numbers, Measured
  <2>14. Size(g) + Size(u) = Size(s.got) + Size(n.up)
    BY <1>3, <2>3, <2>13 DEF Shorter, Numbers, Measured
  <2>15. s.mailed = 0 /\ s.mail = <<>>
    BY <1>2, <1>4, <1>5 DEF Typed, Sound, Opened
  <2>16. Size(s.mail) = 0 /\ s.mailed = 0
    BY <2>15, NoneCount
  <2>17. Size(e) = 1
    BY <2>7, NoneCount DEF Longer
  <2>18. AddsUp(a, n, s) => a.heard + Size(a.inbox) + Size(n.down) + Size(e) = 1
    BY <1>3, <2>16, <2>17 DEF AddsUp, Numbers, Measured
  <2>19. a.holds /\ Clean(k, n, sim) => AddsUp(a, n, s)
    BY <1>4 DEF Sound, DownInFull
  <2>20. Opened(k, a, m, r)
    BY <1>2, <1>3, <1>4, <1>5, <2>3, <2>5, <2>7, <2>8, <2>9, NoneCount DEF Typed, Numbers,
       Sound, Opened, Broken, Measured, Shorter, Longer
  <2>21. UpInOrder(k, a, m, r)
    BY <1>4, <1>5, <2>3, <2>5, <2>7, <2>8, <2>9, <2>10, <2>11, <2>12, <2>13, <2>14, <2>15,
       <2>16, <2>17, <2>18, <2>19, NoneCount DEF Sound, Opened, UpInOrder, Flowing, Broken
  <2>22. a.holds /\ Clean(k, m, sim) => AddsUp(a, m, r)
    BY <2>8, <2>9, <2>18, <2>19 DEF AddsUp, Clean
  <2>23. DownInFull(k, a, m, r, sim)
    BY <1>2, <1>4, <1>5, <2>8, <2>9, NoneCount, <2>22 DEF Typed, Sound, Opened, DownInFull,
       Silent, HungUp, Clean, Broken
  <2> QED BY <1>2, <2>1, <2>3, <2>5, <2>7, <2>8, <2>9, <2>20, <2>21, <2>23, OneAtATime DEF Sound,
       Typed, k
<1>6. CASE s.handler = "first" /\ k # "local" /\ n.up # <<>> /\ ~n.cut /\ Refused(c)
  <2> DEFINE u == Tail(n.up)
             g == Append(s.got, Head(n.up))
             d == Append(n.down, 1)
             m == [Rest(c) EXCEPT !.sock = "shut", !.down = IF net[c].cut THEN @ ELSE Append(@, 1)]
             r == [Handed(c) EXCEPT !.mailed = 1, !.handler = "over"]
  <2>1. /\ kind' = kind /\ sim' = sim /\ app' = [app EXCEPT ![c] = a]
        /\ net' = [net EXCEPT ![c] = m] /\ srv' = [srv EXCEPT ![c] = r]
    BY <1>1, <1>6 DEF Route, Joins, Refused, Unanswered, Over, Handed, Rest, App, Net, Srv,
       Native, Web, Local, Lost, Broken, Size, k, a, n, s
  <2>2. u \in Seq(Nat)
    BY <1>2, <1>6, CountsTail DEF Typed, AppState, NetState, SrvState
  <2>3. Shorter(u, n.up)
    BY <1>2, <1>6, CountsTail DEF Typed, AppState, NetState, SrvState
  <2>4. g \in Seq(Nat)
    BY <1>2, <1>6, <2>3, CountsAppend, HeadIsNat DEF Typed, AppState, NetState, SrvState
  <2>5. Longer(g, s.got, Head(n.up))
    BY <1>2, <1>6, <2>3, CountsAppend, HeadIsNat DEF Typed, AppState, NetState, SrvState
  <2>6. d \in Seq(Nat)
    BY <1>2, <1>6, <2>3, <2>5, CountsAppend, HeadIsNat DEF Typed, AppState, NetState, SrvState
  <2>7. Longer(d, n.down, 1)
    BY <1>2, <1>6, <2>3, <2>5, CountsAppend, HeadIsNat DEF Typed, AppState, NetState, SrvState
  <2> HIDE DEF u, g, d
  <2>8. /\ m \in NetState
        /\ m.sock = "shut" /\ m.up = u /\ m.down = d /\ m.cut = n.cut /\ m.stalled = n.stalled
    BY <1>2, <2>2, <2>4, <2>6, NoneSeq, <1>6 DEF Typed, NetState, Rest, Native, Web, Local,
       Lost, Broken, k, n, s, u, g, d
  <2>9. /\ r \in SrvState
        /\ r.handler = "over" /\ r.writer = s.writer /\ r.client = s.client /\ r.leave = s.leave
        /\ r.mail = s.mail /\ r.mailed = 1 /\ r.got = g
    BY <1>2, <2>2, <2>4, <2>6, NoneSeq, <1>6 DEF Typed, SrvState, Handed, Native, Web, Local,
       Lost, Broken, k, n, s, u, g, d
  <2> HIDE DEF m, r
  <2>10. Counts(s.got, 0) /\ Counts(n.up, Size(s.got))
    BY <1>4 DEF Sound, UpInOrder
  <2>11. Flowing(k, n, s) => Counts(a.queue, Size(s.got) + Size(n.up)) /\ Size(s.got) + Size(n.up) + Size(a.queue) = a.sent
    BY <1>4 DEF Sound, UpInOrder
  <2>12. Head(n.up) = Size(s.got) + 1 /\ Counts(u, Size(s.got) + 1)
    BY <1>3, <2>3, <2>10 DEF Shorter, Numbers, Measured
  <2>13. Counts(g, 0) /\ Size(g) = Size(s.got) + 1
    BY <1>3, <2>5, <2>10, <2>12 DEF Longer, Numbers, Measured
  <2>14. Size(g) + Size(u) = Size(s.got) + Size(n.up)
    BY <1>3, <2>3, <2>13 DEF Shorter, Numbers, Measured
  <2>15. s.mailed = 0
    BY <1>2, <1>4, <1>6 DEF Typed, Sound, Opened
  <2>16. AddsUp(a, n, s) => a.heard + Size(a.inbox) + Size(d) + Size(s.mail) = 1
    BY <1>3, <2>7, <2>15 DEF AddsUp, Longer, Numbers, Measured
  <2>17. a.holds /\ Clean(k, n, sim) => AddsUp(a, n, s)
    BY <1>4 DEF Sound, DownInFull
  <2>18. Opened(k, a, m, r)
    BY <1>2, <1>3, <1>4, <1>6, <2>3, <2>5, <2>7, <2>8, <2>9, NoneCount DEF Typed, Numbers,
       Sound, Opened, Broken, Measured, Shorter, Longer
  <2>19. UpInOrder(k, a, m, r)
    BY <1>4, <1>6, <2>3, <2>5, <2>7, <2>8, <2>9, <2>10, <2>11, <2>12, <2>13, <2>14, <2>15,
       <2>16, <2>17, NoneCount DEF Sound, Opened, UpInOrder, Flowing, Broken
  <2>20. a.holds /\ Clean(k, m, sim) => AddsUp(a, m, r)
    BY <2>8, <2>9, <2>16, <2>17 DEF AddsUp, Clean
  <2>21. DownInFull(k, a, m, r, sim)
    BY <1>2, <1>4, <1>6, <2>8, <2>9, NoneCount, <2>20 DEF Typed, Sound, Opened, DownInFull,
       Silent, HungUp, Clean, Broken
  <2> QED BY <1>2, <2>1, <2>3, <2>5, <2>7, <2>8, <2>9, <2>18, <2>19, <2>21, OneAtATime DEF Sound,
       Typed, k
<1>7. CASE s.handler = "first" /\ k # "local" /\ n.up # <<>> /\ n.cut /\ Refused(c)
  <2> DEFINE u == Tail(n.up)
             g == Append(s.got, Head(n.up))
             m == [Rest(c) EXCEPT !.sock = "shut", !.down = IF net[c].cut THEN @ ELSE Append(@, 1)]
             r == [Handed(c) EXCEPT !.mailed = 1, !.handler = "over"]
  <2>1. /\ kind' = kind /\ sim' = sim /\ app' = [app EXCEPT ![c] = a]
        /\ net' = [net EXCEPT ![c] = m] /\ srv' = [srv EXCEPT ![c] = r]
    BY <1>1, <1>7 DEF Route, Joins, Refused, Unanswered, Over, Handed, Rest, App, Net, Srv,
       Native, Web, Local, Lost, Broken, Size, k, a, n, s
  <2>2. u \in Seq(Nat)
    BY <1>2, <1>7, CountsTail DEF Typed, AppState, NetState, SrvState
  <2>3. Shorter(u, n.up)
    BY <1>2, <1>7, CountsTail DEF Typed, AppState, NetState, SrvState
  <2>4. g \in Seq(Nat)
    BY <1>2, <1>7, <2>3, CountsAppend, HeadIsNat DEF Typed, AppState, NetState, SrvState
  <2>5. Longer(g, s.got, Head(n.up))
    BY <1>2, <1>7, <2>3, CountsAppend, HeadIsNat DEF Typed, AppState, NetState, SrvState
  <2> HIDE DEF u, g
  <2>6. /\ m \in NetState
        /\ m.sock = "shut" /\ m.up = u /\ m.down = n.down /\ m.cut = n.cut
        /\ m.stalled = n.stalled
    BY <1>2, <2>2, <2>4, NoneSeq, <1>7 DEF Typed, NetState, Rest, Native, Web, Local, Lost,
       Broken, k, n, s, u, g
  <2>7. /\ r \in SrvState
        /\ r.handler = "over" /\ r.writer = s.writer /\ r.client = s.client /\ r.leave = s.leave
        /\ r.mail = s.mail /\ r.mailed = 1 /\ r.got = g
    BY <1>2, <2>2, <2>4, NoneSeq, <1>7 DEF Typed, SrvState, Handed, Native, Web, Local, Lost,
       Broken, k, n, s, u, g
  <2> HIDE DEF m, r
  <2>8. Counts(s.got, 0) /\ Counts(n.up, Size(s.got))
    BY <1>4 DEF Sound, UpInOrder
  <2>9. Flowing(k, n, s) => Counts(a.queue, Size(s.got) + Size(n.up)) /\ Size(s.got) + Size(n.up) + Size(a.queue) = a.sent
    BY <1>4 DEF Sound, UpInOrder
  <2>10. Head(n.up) = Size(s.got) + 1 /\ Counts(u, Size(s.got) + 1)
    BY <1>3, <2>3, <2>8 DEF Shorter, Numbers, Measured
  <2>11. Counts(g, 0) /\ Size(g) = Size(s.got) + 1
    BY <1>3, <2>5, <2>8, <2>10 DEF Longer, Numbers, Measured
  <2>12. Size(g) + Size(u) = Size(s.got) + Size(n.up)
    BY <1>3, <2>3, <2>11 DEF Shorter, Numbers, Measured
  <2>13. Opened(k, a, m, r)
    BY <1>2, <1>3, <1>4, <1>7, <2>3, <2>5, <2>6, <2>7, NoneCount DEF Typed, Numbers, Sound,
       Opened, Broken, Measured, Shorter, Longer
  <2>14. UpInOrder(k, a, m, r)
    BY <1>4, <1>7, <2>3, <2>5, <2>6, <2>7, <2>8, <2>9, <2>10, <2>11, <2>12, NoneCount DEF Sound,
       Opened, UpInOrder, Flowing, Broken
  <2>15. a.holds /\ Clean(k, m, sim) => AddsUp(a, m, r)
    BY <1>7, <2>6, <2>7, NoneCount DEF Clean
  <2>16. DownInFull(k, a, m, r, sim)
    BY <1>2, <1>4, <1>7, <2>6, <2>7, NoneCount, <2>15 DEF Typed, Sound, Opened, DownInFull,
       Silent, HungUp, Clean, Broken
  <2> QED BY <1>2, <2>1, <2>3, <2>5, <2>6, <2>7, <2>13, <2>14, <2>16, OneAtATime DEF Sound, Typed, k
<1>8. CASE s.handler = "first" /\ k # "local" /\ n.up # <<>> /\ Unanswered(c)
  <2> DEFINE u == Tail(n.up)
             g == Append(s.got, Head(n.up))
             m == [n EXCEPT !.up = u, !.sock = "shut"]
             r == [s EXCEPT !.got = g, !.handler = "over"]
  <2>1. /\ kind' = kind /\ sim' = sim /\ app' = [app EXCEPT ![c] = a]
        /\ net' = [net EXCEPT ![c] = m] /\ srv' = [srv EXCEPT ![c] = r]
    BY <1>1, <1>8 DEF Route, Joins, Refused, Unanswered, Over, Handed, Rest, App, Net, Srv,
       Native, Web, Local, Lost, Broken, Size, k, a, n, s
  <2>2. u \in Seq(Nat)
    BY <1>2, <1>8, CountsTail DEF Typed, AppState, NetState, SrvState
  <2>3. Shorter(u, n.up)
    BY <1>2, <1>8, CountsTail DEF Typed, AppState, NetState, SrvState
  <2>4. g \in Seq(Nat)
    BY <1>2, <1>8, <2>3, CountsAppend, HeadIsNat DEF Typed, AppState, NetState, SrvState
  <2>5. Longer(g, s.got, Head(n.up))
    BY <1>2, <1>8, <2>3, CountsAppend, HeadIsNat DEF Typed, AppState, NetState, SrvState
  <2> HIDE DEF u, g
  <2>6. /\ m \in NetState
        /\ m.sock = "shut" /\ m.up = u /\ m.down = n.down /\ m.cut = n.cut
        /\ m.stalled = n.stalled
    BY <1>2, <2>2, <2>4, NoneSeq, <1>8 DEF Typed, NetState
  <2>7. /\ r \in SrvState
        /\ r.handler = "over" /\ r.writer = s.writer /\ r.client = s.client /\ r.leave = s.leave
        /\ r.mail = s.mail /\ r.mailed = s.mailed /\ r.got = g
    BY <1>2, <2>2, <2>4, NoneSeq, <1>8 DEF Typed, SrvState
  <2> HIDE DEF m, r
  <2>8. Counts(s.got, 0) /\ Counts(n.up, Size(s.got))
    BY <1>4 DEF Sound, UpInOrder
  <2>9. Flowing(k, n, s) => Counts(a.queue, Size(s.got) + Size(n.up)) /\ Size(s.got) + Size(n.up) + Size(a.queue) = a.sent
    BY <1>4 DEF Sound, UpInOrder
  <2>10. Head(n.up) = Size(s.got) + 1 /\ Counts(u, Size(s.got) + 1)
    BY <1>3, <2>3, <2>8 DEF Shorter, Numbers, Measured
  <2>11. Counts(g, 0) /\ Size(g) = Size(s.got) + 1
    BY <1>3, <2>5, <2>8, <2>10 DEF Longer, Numbers, Measured
  <2>12. Size(g) + Size(u) = Size(s.got) + Size(n.up)
    BY <1>3, <2>3, <2>11 DEF Shorter, Numbers, Measured
  <2>13. Opened(k, a, m, r)
    BY <1>2, <1>3, <1>4, <1>8, <2>3, <2>5, <2>6, <2>7, NoneCount DEF Typed, Numbers, Sound,
       Opened, Broken, Measured, Shorter, Longer
  <2>14. UpInOrder(k, a, m, r)
    BY <1>4, <1>8, <2>3, <2>5, <2>6, <2>7, <2>8, <2>9, <2>10, <2>11, <2>12, NoneCount DEF Sound,
       Opened, UpInOrder, Flowing, Broken
  <2>15. AddsUp(a, n, s) => AddsUp(a, m, r)
    BY <1>3, <2>3, <2>5, <2>6, <2>7 DEF AddsUp, Numbers, Measured, Shorter, Longer
  <2>16. DownInFull(k, a, m, r, sim)
    BY <1>2, <1>4, <1>8, <2>6, <2>7, NoneCount, <2>15 DEF Typed, Sound, Opened, DownInFull,
       Silent, HungUp, Clean, Broken
  <2> QED BY <1>2, <2>1, <2>3, <2>5, <2>6, <2>7, <2>13, <2>14, <2>16, OneAtATime DEF Sound, Typed, k
<1> QED BY <1>2, <1>4, <1>5, <1>6, <1>7, <1>8 DEF Route, Typed, Sound, Opened, k, a, n, s

\* The reader of a joined connection hands on what it reads in order.
LEMMA ReadKeeps == ASSUME WireIInv, NEW c \in Conns, Read(c) PROVE WireIInv'
<1> DEFINE k == kind[c]  a == app[c]  n == net[c]  s == srv[c]
<1>1. app = [app EXCEPT ![c] = a] /\ net = [net EXCEPT ![c] = n] /\ srv = [srv EXCEPT ![c] = s]
  BY Parts
<1>2. Typed(k, a, n, s)
  BY Parts
<1>3. Numbers(a, n, s)
  BY Parts
<1>4. Sound(k, a, n, s, sim)
  BY Parts
<1> HIDE DEF k, a, n, s
<1>5. CASE s.handler = "serving" /\ k # "local" /\ n.up # <<>> /\ sim /\ Srv(c, Handed(c)) /\ Net(c, Rest(c)) /\ Read(c)
  <2> DEFINE u == Tail(n.up)
             g == Append(s.got, Head(n.up))
             m == [n EXCEPT !.up = u]
             r == [s EXCEPT !.got = g]
  <2>1. /\ kind' = kind /\ sim' = sim /\ app' = [app EXCEPT ![c] = a]
        /\ net' = [net EXCEPT ![c] = m] /\ srv' = [srv EXCEPT ![c] = r]
    BY <1>1, <1>5 DEF Read, Over, Shut, Handed, Rest, App, Net, Srv, Native, Web, Local, Lost,
       Broken, Size, k, a, n, s
  <2>2. u \in Seq(Nat)
    BY <1>2, <1>5, CountsTail DEF Typed, AppState, NetState, SrvState
  <2>3. Shorter(u, n.up)
    BY <1>2, <1>5, CountsTail DEF Typed, AppState, NetState, SrvState
  <2>4. g \in Seq(Nat)
    BY <1>2, <1>5, <2>3, CountsAppend, HeadIsNat DEF Typed, AppState, NetState, SrvState
  <2>5. Longer(g, s.got, Head(n.up))
    BY <1>2, <1>5, <2>3, CountsAppend, HeadIsNat DEF Typed, AppState, NetState, SrvState
  <2> HIDE DEF u, g
  <2>6. /\ m \in NetState
        /\ m.sock = n.sock /\ m.up = u /\ m.down = n.down /\ m.cut = n.cut
        /\ m.stalled = n.stalled
    BY <1>2, <2>2, <2>4, NoneSeq, <1>5 DEF Typed, NetState
  <2>7. /\ r \in SrvState
        /\ r.handler = s.handler /\ r.writer = s.writer /\ r.client = s.client
        /\ r.leave = s.leave /\ r.mail = s.mail /\ r.mailed = s.mailed /\ r.got = g
    BY <1>2, <2>2, <2>4, NoneSeq, <1>5 DEF Typed, SrvState
  <2> HIDE DEF m, r
  <2>8. Counts(s.got, 0) /\ Counts(n.up, Size(s.got))
    BY <1>4 DEF Sound, UpInOrder
  <2>9. Flowing(k, n, s) => Counts(a.queue, Size(s.got) + Size(n.up)) /\ Size(s.got) + Size(n.up) + Size(a.queue) = a.sent
    BY <1>4 DEF Sound, UpInOrder
  <2>10. Head(n.up) = Size(s.got) + 1 /\ Counts(u, Size(s.got) + 1)
    BY <1>3, <2>3, <2>8 DEF Shorter, Numbers, Measured
  <2>11. Counts(g, 0) /\ Size(g) = Size(s.got) + 1
    BY <1>3, <2>5, <2>8, <2>10 DEF Longer, Numbers, Measured
  <2>12. Size(g) + Size(u) = Size(s.got) + Size(n.up)
    BY <1>3, <2>3, <2>11 DEF Shorter, Numbers, Measured
  <2>13. Opened(k, a, m, r)
    BY <1>2, <1>3, <1>4, <1>5, <2>3, <2>5, <2>6, <2>7, NoneCount DEF Typed, Numbers, Sound,
       Opened, Broken, Measured, Shorter, Longer
  <2>14. UpInOrder(k, a, m, r)
    BY <1>4, <1>5, <2>3, <2>5, <2>6, <2>7, <2>8, <2>9, <2>10, <2>11, <2>12, NoneCount DEF Sound,
       Opened, UpInOrder, Flowing, Broken
  <2>15. AddsUp(a, n, s) => AddsUp(a, m, r)
    BY <1>3, <2>3, <2>5, <2>6, <2>7 DEF AddsUp, Numbers, Measured, Shorter, Longer
  <2>16. DownInFull(k, a, m, r, sim)
    BY <1>2, <1>4, <1>5, <2>6, <2>7, NoneCount, <2>15 DEF Typed, Sound, Opened, DownInFull,
       Silent, HungUp, Clean, Broken
  <2> QED BY <1>2, <2>1, <2>3, <2>5, <2>6, <2>7, <2>13, <2>14, <2>16, OneAtATime DEF Sound, Typed, k
<1>6. CASE s.handler = "serving" /\ k = "web" /\ ((n.up # <<>> /\ ~sim) \/ (n.up = <<>> /\ Broken(n))) /\ Read(c)
           /\ Over(c, [srv[c] EXCEPT !.leave = TRUE, !.mail = IF Web(c) THEN <<>> ELSE @], IF Web(c) THEN Shut(c) ELSE net[c])
  <2> DEFINE m == [n EXCEPT !.sock = "shut"]
             r == [s EXCEPT !.handler = "over", !.leave = TRUE, !.mail = <<>>]
  <2>1. /\ kind' = kind /\ sim' = sim /\ app' = [app EXCEPT ![c] = a]
        /\ net' = [net EXCEPT ![c] = m] /\ srv' = [srv EXCEPT ![c] = r]
    BY <1>1, <1>6 DEF Read, Over, Shut, Handed, Rest, App, Net, Srv, Native, Web, Local, Lost,
       Broken, Size, k, a, n, s
  <2>2. /\ m \in NetState
        /\ m.sock = "shut" /\ m.up = n.up /\ m.down = n.down /\ m.cut = n.cut
        /\ m.stalled = n.stalled
    BY <1>2, NoneSeq, <1>6 DEF Typed, NetState
  <2>3. /\ r \in SrvState
        /\ r.handler = "over" /\ r.writer = s.writer /\ r.client = s.client /\ r.leave = TRUE
        /\ r.mail = <<>> /\ r.mailed = s.mailed /\ r.got = s.got
    BY <1>2, NoneSeq, <1>6 DEF Typed, SrvState
  <2> HIDE DEF m, r
  <2>4. Opened(k, a, m, r)
    BY <1>2, <1>3, <1>4, <1>6, <2>2, <2>3, NoneCount DEF Typed, Numbers, Sound, Opened, Broken, Measured
  <2>5. UpInOrder(k, a, m, r)
    BY <1>4, <1>6, <2>2, <2>3, NoneCount DEF Sound, Opened, UpInOrder, Flowing, Broken
  <2>6. a.holds /\ Clean(k, m, sim) => AddsUp(a, m, r)
    BY <1>2, <1>4, <1>6, <2>2, <2>3, NoneCount DEF Typed, Sound, Opened, DownInFull, Silent,
       HungUp, Clean, Broken
  <2>7. DownInFull(k, a, m, r, sim)
    BY <1>2, <1>4, <1>6, <2>2, <2>3, NoneCount, <2>6 DEF Typed, Sound, Opened, DownInFull,
       Silent, HungUp, Clean, Broken
  <2> QED BY <1>2, <2>1, <2>2, <2>3, <2>4, <2>5, <2>7, OneAtATime DEF Sound, Typed, k
<1>7. CASE s.handler = "serving" /\ k = "native" /\ Read(c)
           /\ Over(c, [srv[c] EXCEPT !.leave = TRUE, !.mail = IF Web(c) THEN <<>> ELSE @], IF Web(c) THEN Shut(c) ELSE net[c])
  <2> DEFINE r == [s EXCEPT !.handler = "over", !.leave = TRUE, !.mail = s.mail]
  <2>1. /\ kind' = kind /\ sim' = sim /\ app' = [app EXCEPT ![c] = a]
        /\ net' = [net EXCEPT ![c] = n] /\ srv' = [srv EXCEPT ![c] = r]
    BY <1>1, <1>7 DEF Read, Over, Shut, Handed, Rest, App, Net, Srv, Native, Web, Local, Lost,
       Broken, Size, k, a, n, s
  <2>2. /\ r \in SrvState
        /\ r.handler = "over" /\ r.writer = s.writer /\ r.client = s.client /\ r.leave = TRUE
        /\ r.mail = s.mail /\ r.mailed = s.mailed /\ r.got = s.got
    BY <1>2, NoneSeq, <1>7 DEF Typed, SrvState
  <2> HIDE DEF r
  <2>3. Opened(k, a, n, r)
    BY <1>2, <1>3, <1>4, <1>7, <2>2, NoneCount DEF Typed, Numbers, Sound, Opened, Broken, Measured
  <2>4. UpInOrder(k, a, n, r)
    BY <1>4, <1>7, <2>2, NoneCount DEF Sound, Opened, UpInOrder, Flowing, Broken
  <2>5. AddsUp(a, n, s) => AddsUp(a, n, r)
    BY <1>3, <2>2 DEF AddsUp, Numbers, Measured
  <2>6. DownInFull(k, a, n, r, sim)
    BY <1>2, <1>4, <1>7, <2>2, NoneCount, <2>5 DEF Typed, Sound, Opened, DownInFull, Silent,
       HungUp, Clean, Broken
  <2> QED BY <1>2, <2>1, <2>2, <2>3, <2>4, <2>6, OneAtATime DEF Sound, Typed, k
<1> QED BY <1>2, <1>5, <1>6, <1>7 DEF Read, Over, Shut, Handed, Rest, Native, Web, Local, Lost,
       Broken, k, a, n, s, Typed

\* The pump of a local game does so from the queue.
LEMMA LocalPumpKeeps == ASSUME WireIInv, NEW c \in Conns, LocalPump(c) PROVE WireIInv'
<1> DEFINE k == kind[c]  a == app[c]  n == net[c]  s == srv[c]
<1>1. app = [app EXCEPT ![c] = a] /\ net = [net EXCEPT ![c] = n] /\ srv = [srv EXCEPT ![c] = s]
  BY Parts
<1>2. Typed(k, a, n, s)
  BY Parts
<1>3. Numbers(a, n, s)
  BY Parts
<1>4. Sound(k, a, n, s, sim)
  BY Parts
<1> HIDE DEF k, a, n, s
<1>5. CASE k = "local" /\ s.handler = "serving" /\ a.queue # <<>> /\ App(c, [app[c] EXCEPT !.queue = Tail(@)]) /\ LocalPump(c)
           /\ Srv(c, [srv[c] EXCEPT !.got = Append(@, Head(app[c].queue))])
  <2> DEFINE q == Tail(a.queue)
             g == Append(s.got, Head(a.queue))
             b == [a EXCEPT !.queue = q]
             r == [s EXCEPT !.got = g]
  <2>1. /\ kind' = kind /\ sim' = sim /\ app' = [app EXCEPT ![c] = b]
        /\ net' = [net EXCEPT ![c] = n] /\ srv' = [srv EXCEPT ![c] = r]
    BY <1>1, <1>5 DEF LocalPump, Over, App, Net, Srv, Native, Web, Local, Lost, Broken, Size, k, a, n, s
  <2>2. q \in Seq(Nat)
    BY <1>2, <1>5, CountsTail DEF Typed, AppState, NetState, SrvState
  <2>3. Shorter(q, a.queue)
    BY <1>2, <1>5, CountsTail DEF Typed, AppState, NetState, SrvState
  <2>4. g \in Seq(Nat)
    BY <1>2, <1>5, <2>3, CountsAppend, HeadIsNat DEF Typed, AppState, NetState, SrvState
  <2>5. Longer(g, s.got, Head(a.queue))
    BY <1>2, <1>5, <2>3, CountsAppend, HeadIsNat DEF Typed, AppState, NetState, SrvState
  <2> HIDE DEF q, g
  <2>6. /\ b \in AppState
        /\ b.holds = a.holds /\ b.sent = a.sent /\ b.queue = q /\ b.writer = a.writer
        /\ b.reader = a.reader /\ b.inbox = a.inbox /\ b.heard = a.heard /\ b.gone = a.gone
    BY <1>2, <2>2, <2>4, NoneSeq, <1>5 DEF Typed, AppState
  <2>7. /\ r \in SrvState
        /\ r.handler = s.handler /\ r.writer = s.writer /\ r.client = s.client
        /\ r.leave = s.leave /\ r.mail = s.mail /\ r.mailed = s.mailed /\ r.got = g
    BY <1>2, <2>2, <2>4, NoneSeq, <1>5 DEF Typed, SrvState
  <2> HIDE DEF b, r
  <2>8. n.up = <<>>
    BY <1>4, <1>5 DEF Sound, Opened
  <2>9. Size(n.up) = 0 /\ \A i : Counts(n.up, i)
    BY <2>8, NoneCount
  <2>10. Counts(s.got, 0) /\ Counts(a.queue, Size(s.got) + Size(n.up)) /\ Size(s.got) + Size(n.up) + Size(a.queue) = a.sent
    BY <1>4, <1>5 DEF Sound, UpInOrder, Flowing
  <2>11. Size(s.got) + Size(n.up) = Size(s.got) /\ Size(s.got) \in Nat
    BY <1>3, <2>9 DEF Numbers, Measured
  <2>12. Head(a.queue) = Size(s.got) + 1 /\ Counts(q, Size(s.got) + 1)
    BY <2>3, <2>10, <2>11 DEF Shorter
  <2>13. Counts(g, 0) /\ Size(g) = Size(s.got) + 1
    BY <1>3, <2>5, <2>10, <2>12 DEF Longer, Numbers, Measured
  <2>14. Size(g) + Size(n.up) = Size(s.got) + 1 /\ Size(g) + Size(n.up) + Size(q) = a.sent
    BY <1>3, <2>3, <2>9, <2>10, <2>13 DEF Shorter, Numbers, Measured
  <2>15. Opened(k, b, n, r)
    BY <1>2, <1>3, <1>4, <1>5, <2>3, <2>5, <2>6, <2>7, NoneCount DEF Typed, Numbers, Sound,
       Opened, Broken, Measured, Shorter, Longer
  <2>16. UpInOrder(k, b, n, r)
    BY <1>4, <1>5, <2>3, <2>5, <2>6, <2>7, <2>8, <2>9, <2>10, <2>11, <2>12, <2>13, <2>14,
       NoneCount DEF Sound, Opened, UpInOrder, Flowing, Broken
  <2>17. AddsUp(a, n, s) => AddsUp(b, n, r)
    BY <1>3, <2>3, <2>5, <2>6, <2>7 DEF AddsUp, Numbers, Measured, Shorter, Longer
  <2>18. DownInFull(k, b, n, r, sim)
    BY <1>2, <1>4, <1>5, <2>6, <2>7, NoneCount, <2>17 DEF Typed, Sound, Opened, DownInFull,
       Silent, HungUp, Clean, Broken
  <2> QED BY <1>2, <2>1, <2>3, <2>5, <2>6, <2>7, <2>15, <2>16, <2>18, OneAtATime DEF Sound, Typed, k
<1>6. CASE k = "local" /\ s.handler = "serving" /\ LocalPump(c) /\ Over(c, [srv[c] EXCEPT !.leave = TRUE], net[c])
  <2> DEFINE r == [s EXCEPT !.handler = "over", !.leave = TRUE]
  <2>1. /\ kind' = kind /\ sim' = sim /\ app' = [app EXCEPT ![c] = a]
        /\ net' = [net EXCEPT ![c] = n] /\ srv' = [srv EXCEPT ![c] = r]
    BY <1>1, <1>6 DEF LocalPump, Over, App, Net, Srv, Native, Web, Local, Lost, Broken, Size, k, a, n, s
  <2>2. /\ r \in SrvState
        /\ r.handler = "over" /\ r.writer = s.writer /\ r.client = s.client /\ r.leave = TRUE
        /\ r.mail = s.mail /\ r.mailed = s.mailed /\ r.got = s.got
    BY <1>2, NoneSeq, <1>6 DEF Typed, SrvState
  <2> HIDE DEF r
  <2>3. Opened(k, a, n, r)
    BY <1>2, <1>3, <1>4, <1>6, <2>2, NoneCount DEF Typed, Numbers, Sound, Opened, Broken, Measured
  <2>4. UpInOrder(k, a, n, r)
    BY <1>4, <1>6, <2>2, NoneCount DEF Sound, Opened, UpInOrder, Flowing, Broken
  <2>5. AddsUp(a, n, s) => AddsUp(a, n, r)
    BY <1>3, <2>2 DEF AddsUp, Numbers, Measured
  <2>6. DownInFull(k, a, n, r, sim)
    BY <1>2, <1>4, <1>6, <2>2, NoneCount, <2>5 DEF Typed, Sound, Opened, DownInFull, Silent,
       HungUp, Clean, Broken
  <2> QED BY <1>2, <2>1, <2>2, <2>3, <2>4, <2>6, OneAtATime DEF Sound, Typed, k
<1> QED BY <1>2, <1>5, <1>6 DEF LocalPump, Over, Native, Web, Local, Lost, Broken, k, a, n, s, Typed

\* The writer of a native connection moves a message from the mail to the socket, and shuts it after the last.
LEMMA WriterKeeps == ASSUME WireIInv, NEW c \in Conns, Writer(c) PROVE WireIInv'
<1> DEFINE k == kind[c]  a == app[c]  n == net[c]  s == srv[c]
<1>1. app = [app EXCEPT ![c] = a] /\ net = [net EXCEPT ![c] = n] /\ srv = [srv EXCEPT ![c] = s]
  BY Parts
<1>2. Typed(k, a, n, s)
  BY Parts
<1>3. Numbers(a, n, s)
  BY Parts
<1>4. Sound(k, a, n, s, sim)
  BY Parts
<1> HIDE DEF k, a, n, s
<1>5. CASE k = "native" /\ s.writer /\ s.mail # <<>> /\ ~Broken(n) /\ ~n.stalled /\ Writer(c)
  <2> DEFINE q == Tail(s.mail)
             u == Append(n.down, Head(s.mail))
             m == [n EXCEPT !.down = u]
             r == [s EXCEPT !.mail = q]
  <2>1. /\ kind' = kind /\ sim' = sim /\ app' = [app EXCEPT ![c] = a]
        /\ net' = [net EXCEPT ![c] = m] /\ srv' = [srv EXCEPT ![c] = r]
    BY <1>1, <1>5 DEF Writer, Shut, App, Net, Srv, Native, Web, Local, Lost, Broken, Size, k, a, n, s
  <2>2. q \in Seq(Nat)
    BY <1>2, <1>5, CountsTail DEF Typed, AppState, NetState, SrvState
  <2>3. Shorter(q, s.mail)
    BY <1>2, <1>5, CountsTail DEF Typed, AppState, NetState, SrvState
  <2>4. u \in Seq(Nat)
    BY <1>2, <1>5, <2>3, CountsAppend, HeadIsNat DEF Typed, AppState, NetState, SrvState
  <2>5. Longer(u, n.down, Head(s.mail))
    BY <1>2, <1>5, <2>3, CountsAppend, HeadIsNat DEF Typed, AppState, NetState, SrvState
  <2> HIDE DEF q, u
  <2>6. /\ m \in NetState
        /\ m.sock = n.sock /\ m.up = n.up /\ m.down = u /\ m.cut = n.cut
        /\ m.stalled = n.stalled
    BY <1>2, <2>2, <2>4, NoneSeq, <1>5 DEF Typed, NetState
  <2>7. /\ r \in SrvState
        /\ r.handler = s.handler /\ r.writer = s.writer /\ r.client = s.client
        /\ r.leave = s.leave /\ r.mail = q /\ r.mailed = s.mailed /\ r.got = s.got
    BY <1>2, <2>2, <2>4, NoneSeq, <1>5 DEF Typed, SrvState
  <2> HIDE DEF m, r
  <2>8. Opened(k, a, m, r)
    BY <1>2, <1>3, <1>4, <1>5, <2>3, <2>5, <2>6, <2>7, NoneCount DEF Typed, Numbers, Sound,
       Opened, Broken, Measured, Shorter, Longer
  <2>9. UpInOrder(k, a, m, r)
    BY <1>4, <1>5, <2>3, <2>5, <2>6, <2>7, NoneCount DEF Sound, Opened, UpInOrder, Flowing, Broken
  <2>10. AddsUp(a, n, s) => AddsUp(a, m, r)
    BY <1>3, <2>3, <2>5, <2>6, <2>7 DEF AddsUp, Numbers, Measured, Shorter, Longer
  <2>11. DownInFull(k, a, m, r, sim)
    BY <1>2, <1>4, <1>5, <2>6, <2>7, NoneCount, <2>10 DEF Typed, Sound, Opened, DownInFull,
       Silent, HungUp, Clean, Broken
  <2> QED BY <1>2, <2>1, <2>3, <2>5, <2>6, <2>7, <2>8, <2>9, <2>11, OneAtATime DEF Sound, Typed, k
<1>6. CASE k = "native" /\ s.writer /\ s.mail # <<>> /\ (Broken(n) \/ n.stalled) /\ Writer(c)
  <2> DEFINE r == [s EXCEPT !.writer = FALSE, !.mail = <<>>]
  <2>1. /\ kind' = kind /\ sim' = sim /\ app' = [app EXCEPT ![c] = a]
        /\ net' = [net EXCEPT ![c] = n] /\ srv' = [srv EXCEPT ![c] = r]
    BY <1>1, <1>6 DEF Writer, Shut, App, Net, Srv, Native, Web, Local, Lost, Broken, Size, k, a, n, s
  <2>2. /\ r \in SrvState
        /\ r.handler = s.handler /\ r.writer = FALSE /\ r.client = s.client /\ r.leave = s.leave
        /\ r.mail = <<>> /\ r.mailed = s.mailed /\ r.got = s.got
    BY <1>2, NoneSeq, <1>6 DEF Typed, SrvState
  <2> HIDE DEF r
  <2>3. Opened(k, a, n, r)
    BY <1>2, <1>3, <1>4, <1>6, <2>2, NoneCount DEF Typed, Numbers, Sound, Opened, Broken, Measured
  <2>4. UpInOrder(k, a, n, r)
    BY <1>4, <1>6, <2>2, NoneCount DEF Sound, Opened, UpInOrder, Flowing, Broken
  <2>5. a.holds /\ Clean(k, n, sim) => AddsUp(a, n, r)
    BY <1>2, <1>4, <1>6, <2>2, NoneCount DEF Typed, Sound, Opened, DownInFull, Silent, HungUp,
       Clean, Broken
  <2>6. DownInFull(k, a, n, r, sim)
    BY <1>2, <1>4, <1>6, <2>2, NoneCount, <2>5 DEF Typed, Sound, Opened, DownInFull, Silent,
       HungUp, Clean, Broken
  <2> QED BY <1>2, <2>1, <2>2, <2>3, <2>4, <2>6, OneAtATime DEF Sound, Typed, k
<1>7. CASE k = "native" /\ s.writer /\ s.mail = <<>> /\ ~s.client /\ Writer(c)
  <2> DEFINE m == [n EXCEPT !.sock = "shut"]
             r == [s EXCEPT !.writer = FALSE]
  <2>1. /\ kind' = kind /\ sim' = sim /\ app' = [app EXCEPT ![c] = a]
        /\ net' = [net EXCEPT ![c] = m] /\ srv' = [srv EXCEPT ![c] = r]
    BY <1>1, <1>7 DEF Writer, Shut, App, Net, Srv, Native, Web, Local, Lost, Broken, Size, k, a, n, s
  <2>2. /\ m \in NetState
        /\ m.sock = "shut" /\ m.up = n.up /\ m.down = n.down /\ m.cut = n.cut
        /\ m.stalled = n.stalled
    BY <1>2, NoneSeq, <1>7 DEF Typed, NetState
  <2>3. /\ r \in SrvState
        /\ r.handler = s.handler /\ r.writer = FALSE /\ r.client = s.client /\ r.leave = s.leave
        /\ r.mail = s.mail /\ r.mailed = s.mailed /\ r.got = s.got
    BY <1>2, NoneSeq, <1>7 DEF Typed, SrvState
  <2> HIDE DEF m, r
  <2>4. Opened(k, a, m, r)
    BY <1>2, <1>3, <1>4, <1>7, <2>2, <2>3, NoneCount DEF Typed, Numbers, Sound, Opened, Broken, Measured
  <2>5. UpInOrder(k, a, m, r)
    BY <1>4, <1>7, <2>2, <2>3, NoneCount DEF Sound, Opened, UpInOrder, Flowing, Broken
  <2>6. AddsUp(a, n, s) => AddsUp(a, m, r)
    BY <1>3, <2>2, <2>3 DEF AddsUp, Numbers, Measured
  <2>7. DownInFull(k, a, m, r, sim)
    BY <1>2, <1>4, <1>7, <2>2, <2>3, NoneCount, <2>6 DEF Typed, Sound, Opened, DownInFull,
       Silent, HungUp, Clean, Broken
  <2> QED BY <1>2, <2>1, <2>2, <2>3, <2>4, <2>5, <2>7, OneAtATime DEF Sound, Typed, k
<1> QED BY <1>2, <1>5, <1>6, <1>7 DEF Writer, Shut, Native, Web, Local, Lost, Broken, k, a, n, s, Typed

\* So does the writing half of a web connection.
LEMMA WebWriterKeeps == ASSUME WireIInv, NEW c \in Conns, WebWriter(c) PROVE WireIInv'
<1> DEFINE k == kind[c]  a == app[c]  n == net[c]  s == srv[c]
<1>1. app = [app EXCEPT ![c] = a] /\ net = [net EXCEPT ![c] = n] /\ srv = [srv EXCEPT ![c] = s]
  BY Parts
<1>2. Typed(k, a, n, s)
  BY Parts
<1>3. Numbers(a, n, s)
  BY Parts
<1>4. Sound(k, a, n, s, sim)
  BY Parts
<1> HIDE DEF k, a, n, s
<1>5. CASE k = "web" /\ s.handler = "serving" /\ s.mail # <<>> /\ ~Broken(n) /\ ~n.stalled /\ WebWriter(c)
  <2> DEFINE q == Tail(s.mail)
             u == Append(n.down, Head(s.mail))
             m == [n EXCEPT !.down = u]
             r == [s EXCEPT !.mail = q]
  <2>1. /\ kind' = kind /\ sim' = sim /\ app' = [app EXCEPT ![c] = a]
        /\ net' = [net EXCEPT ![c] = m] /\ srv' = [srv EXCEPT ![c] = r]
    BY <1>1, <1>5 DEF WebWriter, Over, Shut, App, Net, Srv, Native, Web, Local, Lost, Broken,
       Size, k, a, n, s
  <2>2. q \in Seq(Nat)
    BY <1>2, <1>5, CountsTail DEF Typed, AppState, NetState, SrvState
  <2>3. Shorter(q, s.mail)
    BY <1>2, <1>5, CountsTail DEF Typed, AppState, NetState, SrvState
  <2>4. u \in Seq(Nat)
    BY <1>2, <1>5, <2>3, CountsAppend, HeadIsNat DEF Typed, AppState, NetState, SrvState
  <2>5. Longer(u, n.down, Head(s.mail))
    BY <1>2, <1>5, <2>3, CountsAppend, HeadIsNat DEF Typed, AppState, NetState, SrvState
  <2> HIDE DEF q, u
  <2>6. /\ m \in NetState
        /\ m.sock = n.sock /\ m.up = n.up /\ m.down = u /\ m.cut = n.cut
        /\ m.stalled = n.stalled
    BY <1>2, <2>2, <2>4, NoneSeq, <1>5 DEF Typed, NetState
  <2>7. /\ r \in SrvState
        /\ r.handler = s.handler /\ r.writer = s.writer /\ r.client = s.client
        /\ r.leave = s.leave /\ r.mail = q /\ r.mailed = s.mailed /\ r.got = s.got
    BY <1>2, <2>2, <2>4, NoneSeq, <1>5 DEF Typed, SrvState
  <2> HIDE DEF m, r
  <2>8. Opened(k, a, m, r)
    BY <1>2, <1>3, <1>4, <1>5, <2>3, <2>5, <2>6, <2>7, NoneCount DEF Typed, Numbers, Sound,
       Opened, Broken, Measured, Shorter, Longer
  <2>9. UpInOrder(k, a, m, r)
    BY <1>4, <1>5, <2>3, <2>5, <2>6, <2>7, NoneCount DEF Sound, Opened, UpInOrder, Flowing, Broken
  <2>10. AddsUp(a, n, s) => AddsUp(a, m, r)
    BY <1>3, <2>3, <2>5, <2>6, <2>7 DEF AddsUp, Numbers, Measured, Shorter, Longer
  <2>11. DownInFull(k, a, m, r, sim)
    BY <1>2, <1>4, <1>5, <2>6, <2>7, NoneCount, <2>10 DEF Typed, Sound, Opened, DownInFull,
       Silent, HungUp, Clean, Broken
  <2> QED BY <1>2, <2>1, <2>3, <2>5, <2>6, <2>7, <2>8, <2>9, <2>11, OneAtATime DEF Sound, Typed, k
<1>6. CASE k = "web" /\ s.handler = "serving" /\ s.mail # <<>> /\ (Broken(n) \/ n.stalled) /\ WebWriter(c)
  <2> DEFINE m == [n EXCEPT !.sock = "shut"]
             r == [s EXCEPT !.handler = "over", !.leave = TRUE, !.mail = <<>>]
  <2>1. /\ kind' = kind /\ sim' = sim /\ app' = [app EXCEPT ![c] = a]
        /\ net' = [net EXCEPT ![c] = m] /\ srv' = [srv EXCEPT ![c] = r]
    BY <1>1, <1>6 DEF WebWriter, Over, Shut, App, Net, Srv, Native, Web, Local, Lost, Broken,
       Size, k, a, n, s
  <2>2. /\ m \in NetState
        /\ m.sock = "shut" /\ m.up = n.up /\ m.down = n.down /\ m.cut = n.cut
        /\ m.stalled = n.stalled
    BY <1>2, NoneSeq, <1>6 DEF Typed, NetState
  <2>3. /\ r \in SrvState
        /\ r.handler = "over" /\ r.writer = s.writer /\ r.client = s.client /\ r.leave = TRUE
        /\ r.mail = <<>> /\ r.mailed = s.mailed /\ r.got = s.got
    BY <1>2, NoneSeq, <1>6 DEF Typed, SrvState
  <2> HIDE DEF m, r
  <2>4. Opened(k, a, m, r)
    BY <1>2, <1>3, <1>4, <1>6, <2>2, <2>3, NoneCount DEF Typed, Numbers, Sound, Opened, Broken, Measured
  <2>5. UpInOrder(k, a, m, r)
    BY <1>4, <1>6, <2>2, <2>3, NoneCount DEF Sound, Opened, UpInOrder, Flowing, Broken
  <2>6. a.holds /\ Clean(k, m, sim) => AddsUp(a, m, r)
    BY <1>2, <1>4, <1>6, <2>2, <2>3, NoneCount DEF Typed, Sound, Opened, DownInFull, Silent,
       HungUp, Clean, Broken
  <2>7. DownInFull(k, a, m, r, sim)
    BY <1>2, <1>4, <1>6, <2>2, <2>3, NoneCount, <2>6 DEF Typed, Sound, Opened, DownInFull,
       Silent, HungUp, Clean, Broken
  <2> QED BY <1>2, <2>1, <2>2, <2>3, <2>4, <2>5, <2>7, OneAtATime DEF Sound, Typed, k
<1>7. CASE k = "web" /\ s.handler = "serving" /\ s.mail = <<>> /\ ~s.client /\ WebWriter(c)
  <2> DEFINE m == [n EXCEPT !.sock = "shut"]
             r == [s EXCEPT !.handler = "over", !.leave = TRUE, !.mail = <<>>]
  <2>1. /\ kind' = kind /\ sim' = sim /\ app' = [app EXCEPT ![c] = a]
        /\ net' = [net EXCEPT ![c] = m] /\ srv' = [srv EXCEPT ![c] = r]
    BY <1>1, <1>7 DEF WebWriter, Over, Shut, App, Net, Srv, Native, Web, Local, Lost, Broken,
       Size, k, a, n, s
  <2>2. /\ m \in NetState
        /\ m.sock = "shut" /\ m.up = n.up /\ m.down = n.down /\ m.cut = n.cut
        /\ m.stalled = n.stalled
    BY <1>2, NoneSeq, <1>7 DEF Typed, NetState
  <2>3. /\ r \in SrvState
        /\ r.handler = "over" /\ r.writer = s.writer /\ r.client = s.client /\ r.leave = TRUE
        /\ r.mail = s.mail /\ r.mailed = s.mailed /\ r.got = s.got
    BY <1>2, NoneSeq, <1>7 DEF Typed, SrvState
  <2> HIDE DEF m, r
  <2>4. Opened(k, a, m, r)
    BY <1>2, <1>3, <1>4, <1>7, <2>2, <2>3, NoneCount DEF Typed, Numbers, Sound, Opened, Broken, Measured
  <2>5. UpInOrder(k, a, m, r)
    BY <1>4, <1>7, <2>2, <2>3, NoneCount DEF Sound, Opened, UpInOrder, Flowing, Broken
  <2>6. AddsUp(a, n, s) => AddsUp(a, m, r)
    BY <1>3, <2>2, <2>3 DEF AddsUp, Numbers, Measured
  <2>7. DownInFull(k, a, m, r, sim)
    BY <1>2, <1>4, <1>7, <2>2, <2>3, NoneCount, <2>6 DEF Typed, Sound, Opened, DownInFull,
       Silent, HungUp, Clean, Broken
  <2> QED BY <1>2, <2>1, <2>2, <2>3, <2>4, <2>5, <2>7, OneAtATime DEF Sound, Typed, k
<1> QED BY <1>2, <1>5, <1>6, <1>7 DEF WebWriter, Over, Shut, Native, Web, Local, Lost, Broken, k, a,
       n, s, Typed

\* What the world sends waits in the mail of a connection that listens.
LEMMA BroadcastKeeps == ASSUME WireIInv, NEW c \in Conns, Broadcast(c) PROVE WireIInv'
<1> DEFINE k == kind[c]  a == app[c]  n == net[c]  s == srv[c]
<1>1. app = [app EXCEPT ![c] = a] /\ net = [net EXCEPT ![c] = n] /\ srv = [srv EXCEPT ![c] = s]
  BY Parts
<1>2. Typed(k, a, n, s)
  BY Parts
<1>3. Numbers(a, n, s)
  BY Parts
<1>4. Sound(k, a, n, s, sim)
  BY Parts
<1> HIDE DEF k, a, n, s
<1>5. CASE Listens(c) /\ sim /\ s.client /\ Broadcast(c)
  <2> DEFINE x == s.mailed + 1
             q == Append(s.mail, x)
             r == [s EXCEPT !.mail = q, !.mailed = x]
  <2>1. /\ kind' = kind /\ sim' = sim /\ app' = [app EXCEPT ![c] = a]
        /\ net' = [net EXCEPT ![c] = n] /\ srv' = [srv EXCEPT ![c] = r]
    BY <1>1, <1>5 DEF Broadcast, Mailed, App, Net, Srv, Native, Web, Local, Lost, Broken, Size,
       k, a, n, s
  <2>2. x \in Nat /\ x = s.mailed + 1
    BY <1>3, <1>5 DEF Numbers, Measured
  <2>3. q \in Seq(Nat)
    BY <1>2, <1>5, <2>2, CountsAppend, HeadIsNat DEF Typed, AppState, NetState, SrvState
  <2>4. Longer(q, s.mail, x)
    BY <1>2, <1>5, <2>2, CountsAppend, HeadIsNat DEF Typed, AppState, NetState, SrvState
  <2> HIDE DEF x, q
  <2>5. /\ r \in SrvState
        /\ r.handler = s.handler /\ r.writer = s.writer /\ r.client = s.client
        /\ r.leave = s.leave /\ r.mail = q /\ r.mailed = x /\ r.got = s.got
    BY <1>2, <2>2, <2>3, NoneSeq, <1>5 DEF Typed, SrvState
  <2> HIDE DEF r
  <2>6. (k = "native" => s.writer) /\ (k = "web" => s.handler = "serving") /\ (k = "local" => a.holds)
    BY <1>2, <1>5 DEF Listens, Native, Web, Typed, k, a, s
  <2>7. Opened(k, a, n, r)
    BY <1>2, <1>3, <1>4, <1>5, <2>2, <2>4, <2>5, <2>6, NoneCount DEF Typed, Numbers, Sound,
       Opened, Broken, Measured, Longer
  <2>8. UpInOrder(k, a, n, r)
    BY <1>4, <1>5, <2>2, <2>4, <2>5, <2>6, <2>6, NoneCount DEF Sound, Opened, UpInOrder, Flowing, Broken
  <2>9. AddsUp(a, n, s) => AddsUp(a, n, r)
    BY <1>3, <2>2, <2>4, <2>5, <2>6 DEF AddsUp, Numbers, Measured, Longer
  <2>10. DownInFull(k, a, n, r, sim)
    BY <1>2, <1>4, <1>5, <2>5, <2>6, NoneCount, <2>9 DEF Typed, Sound, Opened, DownInFull,
       Silent, HungUp, Clean, Broken
  <2> QED BY <1>2, <2>1, <2>2, <2>4, <2>5, <2>6, <2>7, <2>8, <2>10, OneAtATime DEF Sound, Typed, k
<1>6. CASE ~Listens(c) /\ sim /\ s.client /\ Broadcast(c)
  <2> DEFINE r == [s EXCEPT !.client = FALSE]
  <2>1. /\ kind' = kind /\ sim' = sim /\ app' = [app EXCEPT ![c] = a]
        /\ net' = [net EXCEPT ![c] = n] /\ srv' = [srv EXCEPT ![c] = r]
    BY <1>1, <1>6 DEF Broadcast, Mailed, App, Net, Srv, Native, Web, Local, Lost, Broken, Size,
       k, a, n, s
  <2>2. /\ r \in SrvState
        /\ r.handler = s.handler /\ r.writer = s.writer /\ r.client = FALSE /\ r.leave = s.leave
        /\ r.mail = s.mail /\ r.mailed = s.mailed /\ r.got = s.got
    BY <1>2, NoneSeq, <1>6 DEF Typed, SrvState
  <2> HIDE DEF r
  <2>3. Opened(k, a, n, r)
    BY <1>2, <1>3, <1>4, <1>6, <2>2, NoneCount DEF Typed, Numbers, Sound, Opened, Broken, Measured
  <2>4. UpInOrder(k, a, n, r)
    BY <1>4, <1>6, <2>2, NoneCount DEF Sound, Opened, UpInOrder, Flowing, Broken
  <2>5. AddsUp(a, n, s) => AddsUp(a, n, r)
    BY <1>3, <2>2 DEF AddsUp, Numbers, Measured
  <2>6. DownInFull(k, a, n, r, sim)
    BY <1>2, <1>4, <1>6, <2>2, NoneCount, <2>5 DEF Typed, Sound, Opened, DownInFull, Silent,
       HungUp, Clean, Broken
  <2> QED BY <1>2, <2>1, <2>2, <2>3, <2>4, <2>6, OneAtATime DEF Sound, Typed, k
<1> QED BY <1>2, <1>5, <1>6 DEF Broadcast, Mailed, Native, Web, Local, Lost, Broken, k, a, n, s, Typed

\* Letting a client go takes nothing of what was sent.
LEMMA LetGoKeeps == ASSUME WireIInv, NEW c \in Conns, LetGo(c) PROVE WireIInv'
<1> DEFINE k == kind[c]  a == app[c]  n == net[c]  s == srv[c]
<1>1. app = [app EXCEPT ![c] = a] /\ net = [net EXCEPT ![c] = n] /\ srv = [srv EXCEPT ![c] = s]
  BY Parts
<1>2. Typed(k, a, n, s)
  BY Parts
<1>3. Numbers(a, n, s)
  BY Parts
<1>4. Sound(k, a, n, s, sim)
  BY Parts
<1> HIDE DEF k, a, n, s
<1>5. CASE LetGo(c)
  <2> DEFINE r == [s EXCEPT !.client = FALSE]
  <2>1. /\ kind' = kind /\ sim' = sim /\ app' = [app EXCEPT ![c] = a]
        /\ net' = [net EXCEPT ![c] = n] /\ srv' = [srv EXCEPT ![c] = r]
    BY <1>1, <1>5 DEF LetGo, App, Net, Srv, Native, Web, Local, Lost, Broken, Size, k, a, n, s
  <2>2. /\ r \in SrvState
        /\ r.handler = s.handler /\ r.writer = s.writer /\ r.client = FALSE /\ r.leave = s.leave
        /\ r.mail = s.mail /\ r.mailed = s.mailed /\ r.got = s.got
    BY <1>2, NoneSeq, <1>5 DEF Typed, SrvState
  <2> HIDE DEF r
  <2>3. Opened(k, a, n, r)
    BY <1>2, <1>3, <1>4, <1>5, <2>2, NoneCount DEF Typed, Numbers, Sound, Opened, Broken, Measured
  <2>4. UpInOrder(k, a, n, r)
    BY <1>4, <1>5, <2>2, NoneCount DEF Sound, Opened, UpInOrder, Flowing, Broken
  <2>5. AddsUp(a, n, s) => AddsUp(a, n, r)
    BY <1>3, <2>2 DEF AddsUp, Numbers, Measured
  <2>6. DownInFull(k, a, n, r, sim)
    BY <1>2, <1>4, <1>5, <2>2, NoneCount, <2>5 DEF Typed, Sound, Opened, DownInFull, Silent,
       HungUp, Clean, Broken
  <2> QED BY <1>2, <2>1, <2>2, <2>3, <2>4, <2>6, OneAtATime DEF Sound, Typed, k
<1> QED BY <1>2, <1>5 DEF LetGo, Native, Web, Local, Lost, Broken, k, a, n, s, Typed

\* A cut line has lost what was on it.
LEMMA CutKeeps == ASSUME WireIInv, NEW c \in Conns, Cut(c) PROVE WireIInv'
<1> DEFINE k == kind[c]  a == app[c]  n == net[c]  s == srv[c]
<1>1. app = [app EXCEPT ![c] = a] /\ net = [net EXCEPT ![c] = n] /\ srv = [srv EXCEPT ![c] = s]
  BY Parts
<1>2. Typed(k, a, n, s)
  BY Parts
<1>3. Numbers(a, n, s)
  BY Parts
<1>4. Sound(k, a, n, s, sim)
  BY Parts
<1> HIDE DEF k, a, n, s
<1>5. CASE n.sock \in {"open", "shut"} /\ Cut(c)
  <2> DEFINE m == [n EXCEPT !.cut = TRUE, !.up = <<>>, !.down = <<>>]
  <2>1. /\ kind' = kind /\ sim' = sim /\ app' = [app EXCEPT ![c] = a]
        /\ net' = [net EXCEPT ![c] = m] /\ srv' = [srv EXCEPT ![c] = s]
    BY <1>1, <1>5 DEF Cut, App, Net, Srv, Native, Web, Local, Lost, Broken, Size, k, a, n, s
  <2>2. /\ m \in NetState
        /\ m.sock = n.sock /\ m.up = <<>> /\ m.down = <<>> /\ m.cut = TRUE
        /\ m.stalled = n.stalled
    BY <1>2, NoneSeq, <1>5 DEF Typed, NetState
  <2> HIDE DEF m
  <2>3. Opened(k, a, m, s)
    BY <1>2, <1>3, <1>4, <1>5, <2>2, NoneCount DEF Typed, Numbers, Sound, Opened, Broken, Measured
  <2>4. UpInOrder(k, a, m, s)
    BY <1>4, <1>5, <2>2, NoneCount DEF Sound, Opened, UpInOrder, Flowing, Broken
  <2>5. a.holds /\ Clean(k, m, sim) => AddsUp(a, m, s)
    BY <1>2, <1>4, <1>5, <2>2, NoneCount DEF Typed, Sound, Opened, DownInFull, Silent, HungUp,
       Clean, Broken
  <2>6. DownInFull(k, a, m, s, sim)
    BY <1>2, <1>4, <1>5, <2>2, NoneCount, <2>5 DEF Typed, Sound, Opened, DownInFull, Silent,
       HungUp, Clean, Broken
  <2> QED BY <1>2, <2>1, <2>2, <2>3, <2>4, <2>6, OneAtATime DEF Sound, Typed, k
<1> QED BY <1>2, <1>5 DEF Cut, Native, Web, Local, Lost, Broken, k, a, n, s, Typed

\* A peer that stops reading keeps it.
LEMMA StallKeeps == ASSUME WireIInv, NEW c \in Conns, Stall(c) PROVE WireIInv'
<1> DEFINE k == kind[c]  a == app[c]  n == net[c]  s == srv[c]
<1>1. app = [app EXCEPT ![c] = a] /\ net = [net EXCEPT ![c] = n] /\ srv = [srv EXCEPT ![c] = s]
  BY Parts
<1>2. Typed(k, a, n, s)
  BY Parts
<1>3. Numbers(a, n, s)
  BY Parts
<1>4. Sound(k, a, n, s, sim)
  BY Parts
<1> HIDE DEF k, a, n, s
<1>5. CASE n.sock = "open" /\ Stall(c)
  <2> DEFINE m == [n EXCEPT !.stalled = TRUE]
  <2>1. /\ kind' = kind /\ sim' = sim /\ app' = [app EXCEPT ![c] = a]
        /\ net' = [net EXCEPT ![c] = m] /\ srv' = [srv EXCEPT ![c] = s]
    BY <1>1, <1>5 DEF Stall, App, Net, Srv, Native, Web, Local, Lost, Broken, Size, k, a, n, s
  <2>2. /\ m \in NetState
        /\ m.sock = n.sock /\ m.up = n.up /\ m.down = n.down /\ m.cut = n.cut
        /\ m.stalled = TRUE
    BY <1>2, NoneSeq, <1>5 DEF Typed, NetState
  <2> HIDE DEF m
  <2>3. Opened(k, a, m, s)
    BY <1>2, <1>3, <1>4, <1>5, <2>2, NoneCount DEF Typed, Numbers, Sound, Opened, Broken, Measured
  <2>4. UpInOrder(k, a, m, s)
    BY <1>4, <1>5, <2>2, NoneCount DEF Sound, Opened, UpInOrder, Flowing, Broken
  <2>5. a.holds /\ Clean(k, m, sim) => AddsUp(a, m, s)
    BY <1>2, <1>4, <1>5, <2>2, NoneCount DEF Typed, Sound, Opened, DownInFull, Silent, HungUp,
       Clean, Broken
  <2>6. DownInFull(k, a, m, s, sim)
    BY <1>2, <1>4, <1>5, <2>2, NoneCount, <2>5 DEF Typed, Sound, Opened, DownInFull, Silent,
       HungUp, Clean, Broken
  <2> QED BY <1>2, <2>1, <2>2, <2>3, <2>4, <2>6, OneAtATime DEF Sound, Typed, k
<1> QED BY <1>2, <1>5 DEF Stall, Native, Web, Local, Lost, Broken, k, a, n, s, Typed

\* The end of the world drops every sender at once, and what was sent stays to be written.
LEMMA SimEndsKeeps == ASSUME WireIInv, SimEnds PROVE WireIInv'
<1>1. WireTypes'
  BY DEF WireIInv, WireTypes, SimEnds, SrvState
<1>2. ASSUME NEW c \in Conns PROVE Sound(kind'[c], app'[c], net'[c], srv'[c], sim')
  <2> DEFINE k == kind[c]  a == app[c]  n == net[c]  s == srv[c]  r == [s EXCEPT !.client = FALSE]
  <2>1. Typed(k, a, n, s)
    BY Parts
  <2>2. Sound(k, a, n, s, sim)
    BY Parts
  <2>3. kind'[c] = k /\ app'[c] = a /\ net'[c] = n /\ srv'[c] = r /\ sim' = FALSE
    BY DEF SimEnds
  <2>4. /\ r.handler = s.handler /\ r.writer = s.writer /\ r.mail = s.mail
        /\ r.mailed = s.mailed /\ r.got = s.got /\ r.client = FALSE
    BY <2>1 DEF Typed, SrvState
  <2> HIDE DEF k, a, n, s, r
  <2>5. Opened(k, a, n, r) /\ UpInOrder(k, a, n, r)
    BY <2>2, <2>4 DEF Sound, Opened, UpInOrder, Flowing, Broken
  <2>6. Clean(k, n, FALSE) => Clean(k, n, sim)
    BY DEF Clean
  <2>7. Silent(k, n, s) => Silent(k, n, r)
    BY <2>4 DEF Silent
  <2>8. DownInFull(k, a, n, r, FALSE)
    BY <2>2, <2>4, <2>6, <2>7 DEF Sound, DownInFull, AddsUp
  <2> QED BY <2>3, <2>5, <2>8 DEF Sound
<1> QED BY <1>1, <1>2 DEF WireIInv

\* Before anybody connects there is nothing to lose.
LEMMA InitKeeps == ASSUME WireInit PROVE WireIInv
<1>1. NoApp \in AppState /\ NoNet \in NetState /\ NoSrv \in SrvState
  BY NoneSeq DEF NoApp, NoNet, NoSrv, AppState, NetState, SrvState
<1>2. WireTypes
  BY <1>1 DEF WireInit, WireTypes
<1>3. ASSUME NEW k PROVE Sound(k, NoApp, NoNet, NoSrv, TRUE)
  <2>1. Opened(k, NoApp, NoNet, NoSrv)
    BY DEF Opened, NoApp, NoNet, NoSrv, Broken
  <2>2. 0 + 0 + 0 = 0 /\ 0 + 0 + 0 + 0 = 0
    OBVIOUS
  <2>3. UpInOrder(k, NoApp, NoNet, NoSrv)
    BY NoneCount, <2>2 DEF UpInOrder, NoApp, NoNet, NoSrv
  <2>4. DownInFull(k, NoApp, NoNet, NoSrv, TRUE)
    BY NoneCount, <2>2 DEF DownInFull, AddsUp, NoApp, NoNet, NoSrv
  <2> QED BY <2>1, <2>3, <2>4 DEF Sound
<1>4. \A c \in Conns : app[c] = NoApp /\ net[c] = NoNet /\ srv[c] = NoSrv /\ sim = TRUE
  BY DEF WireInit
<1> QED BY <1>2, <1>3, <1>4 DEF WireIInv

\* Every step keeps the invariant.
LEMMA NextKeeps == ASSUME WireIInv, [WireNext]_wireVars PROVE WireIInv'
<1>1. ASSUME NEW c \in Conns,
             Connect(c) \/ AppSend(c) \/ AppDrop(c) \/ Poll(c) \/ Pumps(c)
      PROVE  WireIInv'
  BY <1>1, ConnectKeeps, AppSendKeeps, AppDropKeeps, PollKeeps, ClientWriterKeeps,
     ClientReaderKeeps, BrowserKeeps
     DEF Pumps
<1>2. ASSUME NEW c \in Conns, Serves(c) \/ GivesUp(c) \/ Writes(c) \/ Accept(c) PROVE WireIInv'
  BY <1>2, ProbeKeeps, RouteKeeps, ReadKeeps, LocalPumpKeeps, GivesUpKeeps, WriterKeeps,
     WebWriterKeeps, AcceptKeeps
     DEF Serves, Writes
<1>3. ASSUME NEW c \in Conns, Broadcast(c) \/ WireLeave(c) \/ WireKick(c) \/ Cut(c) \/ Stall(c) PROVE WireIInv'
  BY <1>3, BroadcastKeeps, LetGoKeeps, CutKeeps, StallKeeps DEF WireLeave, WireKick
<1>4. CASE UNCHANGED wireVars
  BY <1>4 DEF WireIInv, WireTypes, wireVars
<1> QED BY <1>1, <1>2, <1>3, <1>4, SimEndsKeeps DEF WireNext

-----------------------------------------------------------------------------
(* What follows *)

\* The way up and the way down of every connection add up, in every state.
THEOREM WireInductive == WireSpec => []WireIInv
<1>1. WireInit => WireIInv
  BY InitKeeps
<1>2. WireIInv /\ [WireNext]_wireVars => WireIInv'
  BY NextKeeps
<1> QED BY <1>1, <1>2, PTL DEF WireSpec

\* Whatever the kinds of the connections and whoever goes first, the world is handed what an
\* app sent in order from its first frame, and an app that learns its connection is gone has
\* heard all that was said to it.
THEOREM NothingIsLost == WireSpec => []NothingLostOnTheWay
<1>1. WireIInv => NothingLostOnTheWay
  <2> SUFFICES ASSUME WireIInv PROVE NothingLostOnTheWay
    OBVIOUS
  <2>1. HeardInFull
    <3> SUFFICES ASSUME NEW c \in Conns, app[c].gone, ~net[c].cut, ~net[c].stalled, Web(c) => sim
                 PROVE  app[c].heard = srv[c].mailed
      BY DEF HeardInFull
    <3>1. Sound(kind[c], app[c], net[c], srv[c], sim)
      BY Parts
    <3>2. Clean(kind[c], net[c], sim)
      BY DEF Clean, Web
    <3> QED BY <3>1, <3>2 DEF Sound, DownInFull
  <2>2. FramesInOrder
    <3> SUFFICES ASSUME NEW c \in Conns PROVE srv[c].got = [i \in 1..Len(srv[c].got) |-> i]
      BY DEF FramesInOrder
    <3> DEFINE g == srv[c].got
    <3>1. g \in Seq(Nat)
      BY Parts DEF Typed, SrvState
    <3>2. Counts(g, 0)
      BY Parts DEF Sound, UpInOrder
    <3> HIDE DEF g
    <3>3. g = [i \in 1..Len(g) |-> g[i]]
      BY <3>1
    <3>4. \A i \in 1..Len(g) : g[i] = i
      <4>1. \A i \in 1..Len(g) : g[i] = 0 + i
        BY <3>2 DEF Counts, Size
      <4> QED BY <4>1, <3>1
    <3>5. g = [i \in 1..Len(g) |-> i]
      BY <3>3, <3>4
    <3> QED BY <3>5 DEF g
  <2> QED BY <2>1, <2>2 DEF NothingLostOnTheWay
<1> QED BY <1>1, WireInductive, PTL
=============================================================================
