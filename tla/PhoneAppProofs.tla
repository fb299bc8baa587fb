--------------------------- MODULE PhoneAppProofs ---------------------------
(***************************************************************************)
(* Proofs about PhoneApp for any hosts and any number of calls of connect. *)
(***************************************************************************)
EXTENDS PhoneApp, TLAPS

CallStates == [at : Places, room : Hosts \union {NoHost}, key : Hosts \union {NoHost}]

\* TypeOK without what Placed says better.
Types ==
  /\ known \in (SUBSET Hosts) \ {{}} /\ removed \subseteq Hosts \ known
  /\ active \in known /\ booting \in BOOLEAN
  /\ status \in {"trying", "stopped", "up", "down"}
  /\ call \in [Calls -> CallStates]
  /\ timers \subseteq Calls /\ timer \in Calls \union {None}
  /\ state \in [Hosts -> IceStates] /\ listed \subseteq Hosts
  /\ rtc \in [Hosts -> Calls \union {None}]
  /\ term \in [Hosts -> Calls \union {None, Absent}]
  /\ ice \in [Calls -> {"new", "up", "down", "closed"}] /\ sent \subseteq Calls
  /\ strays \subseteq Hosts \X Hosts

Paired == Placed /\ Wired /\ Matched
Inv == Types /\ Paired /\ NoCrossTalk /\ KeepsTrying

LEMMA Numbers == None \notin Calls /\ Absent \notin Calls
BY PhoneAssumption DEF None, Absent, Calls

LEMMA Typed == Types /\ Placed => TypeOK
<1>. SUFFICES ASSUME Types, Placed PROVE TypeOK
  OBVIOUS
<1>1. ASSUME NEW c \in Calls,
             call[c].at \in {"gather", "put", "again", "retry"} \/ c \in timers \union sent
      PROVE  {call[c].key, call[c].room} \subseteq known \union removed
  BY <1>1 DEF Placed, Client
<1>. QED BY <1>1 DEF Types, TypeOK, CallStates

LEMMA Untyped == TypeOK => Types
BY DEF Types, TypeOK, CallStates

LEMMA Beginning == Init => Inv
<1>. SUFFICES ASSUME Init PROVE Inv
  OBVIOUS
<1>0. \A h \in Hosts : h # NoHost
  BY PhoneAssumption
<1>1. active \in Hosts /\ 1 \in Calls
  BY PhoneAssumption DEF Init, Calls
<1>2. \A c \in Calls : call[c] = IF c = 1 THEN Begun(active) ELSE Unused
  BY DEF Init
<1>3. Begun(active) \in CallStates /\ Unused \in CallStates
  BY <1>1 DEF Begun, Unused, CallStates, Places
<1>4. Types
  BY <1>1, <1>3 DEF Init, Types, IceStates
<1>5. Paired
  BY <1>1, <1>2, Numbers DEF Init, Paired, Placed, Wired, Matched, Client, Begun, Unused
<1>6. KeepsTrying
  BY <1>1, <1>2 DEF KeepsTrying, Begun, Unused, Places
<1>7. NoCrossTalk
  BY DEF Init, NoCrossTalk
<1>. QED BY <1>4, <1>5, <1>6, <1>7 DEF Inv

(***************************************************************************)
(* A task takes one call a step further.                                   *)
(***************************************************************************)
LEMMA Update ==
  ASSUME Types, NEW c \in Calls, NEW r \in CallStates, call' = [call EXCEPT ![c] = r]
  PROVE  /\ call' \in [Calls -> CallStates] /\ call'[c] = r
         /\ \A d \in Calls : d # c => call'[d] = call[d]
BY DEF Types

LEMMA GoesTo ==
  ASSUME Types, NEW c \in Calls, NEW at \in Places, Goes(c, at)
  PROVE  LET r == [call[c] EXCEPT !.at = at]
         IN  /\ r \in CallStates /\ r.at = at /\ r.room = call[c].room /\ r.key = call[c].key
             /\ call' = [call EXCEPT ![c] = r]
<1>1. call[c] \in CallStates
  BY DEF Types
<1>. QED BY <1>1 DEF Goes, CallStates

\* What such a step has to keep.
LEMMA StepPairs ==
  ASSUME Types, Paired, NEW c \in Calls, NEW r \in CallStates,
         call'[c] = r, \A d \in Calls : d # c => call'[d] = call[d],
         known' = known, removed' = removed, state' = state, term' = term, ice' = ice,
         r.at # "unused", r.room \in known \union removed,
         r.key \in known \union removed \union {NoHost},
         r.at = "fetch" => r.key = NoHost,
         r.at \in {"gather", "put", "again", "retry"} => r.key # NoHost,
         Client(c) => r.at # "retry" /\ r.key = call[c].key /\ r.room = call[c].room,
         timers' \subseteq timers \union {c}, sent' \subseteq sent \union {c},
         c \in timers' \union sent' => r.key # NoHost /\ r.at # "retry",
         \/ rtc' = rtc
         \/ r.at = "gather" /\ \A h \in Hosts : rtc'[h] = IF h = r.key THEN c ELSE rtc[h]
  PROVE  Paired'
<1>1. \A d \in Calls : Client(d) => /\ Client(d)' /\ call'[d].key = call[d].key
                                   /\ call'[d].room = call[d].room
  BY Zenon DEF Client
<1>2. Placed'
  <2>1. ASSUME NEW d \in Calls
        PROVE  /\ call'[d].at # "unused" => call'[d].room \in (known \union removed)'
               /\ call'[d].key \in (known \union removed)' \union {NoHost}
               /\ call'[d].at \in {"unused", "fetch"} => call'[d].key = NoHost
               /\ call'[d].at \in {"gather", "put", "again", "retry"} => call'[d].key # NoHost
    BY DEF Paired, Placed
  <2>2. ASSUME NEW d \in Calls, d \in (timers \union sent)' \/ ice'[d] # "new"
        PROVE  Client(d)'
    <3>1. CASE d = c /\ d \in (timers \union sent)'
      BY <3>1 DEF Client
    <3>2. CASE d \in timers \union sent \/ ice[d] # "new"
      BY <3>2, <1>1 DEF Paired, Placed
    <3>. QED BY <2>2, <3>1, <3>2
  <2>. QED BY <2>1, <2>2, Zenon DEF Placed
<1>3. Wired'
  <2>. SUFFICES ASSUME NEW h \in Hosts, NEW d \in Calls, rtc'[h] = d \/ term'[h] = d
                PROVE  Client(d)' /\ call'[d].key = h
    BY Zenon DEF Wired
  <2>1. CASE rtc[h] = d \/ term[h] = d
    BY <2>1, <1>1 DEF Paired, Wired
  <2>2. CASE r.at = "gather" /\ h = r.key /\ d = c
    BY <2>2 DEF Client
  <2>. QED BY <2>1, <2>2
<1>4. Matched'
  BY <1>1 DEF Paired, Placed, Matched
<1>. QED BY <1>2, <1>3, <1>4 DEF Paired

\* And a page that tries goes on trying if this call does.
LEMMA StepTries ==
  ASSUME NEW c \in Calls, Types', 
         status' # "trying" \/ c \in timers' \/ call'[c].at \notin {"unused", "over"}
  PROVE  KeepsTrying'
BY DEF Types, CallStates, KeepsTrying

LEMMA FetchFailsKeeps ==
  ASSUME Inv, NEW c \in Calls, FetchFails(c)
  PROVE  Inv'
<1>. DEFINE r == [call[c] EXCEPT !.at = "retry", !.key = active]
<1>1. /\ call[c] \in CallStates /\ active \in known /\ known \subseteq Hosts
      /\ active # NoHost /\ ~Client(c) /\ call[c].room \in known \union removed
  BY PhoneAssumption DEF Inv, Types, Paired, Placed, Client, FetchFails
<1>2. /\ r \in CallStates /\ r.at = "retry" /\ r.key = active /\ r.room = call[c].room
  BY <1>1 DEF CallStates, Places
<1>3. call' = [call EXCEPT ![c] = r]
  BY DEF FetchFails
<1>4. /\ call' \in [Calls -> CallStates] /\ call'[c] = r
      /\ \A d \in Calls : d # c => call'[d] = call[d]
  BY <1>2, <1>3, Update, Zenon DEF Inv
<1>. HIDE DEF r
<1>5. /\ UNCHANGED <<known, removed, active, booting, timers, timer, state, listed, rtc, term,
                  ice, sent, strays>>
      /\ status' = "trying"
  BY DEF FetchFails, hostVars
<1>6. Types'
  BY <1>4, <1>5 DEF Inv, Types
<1>7. c \notin timers \union sent
  BY <1>1 DEF Inv, Paired, Placed
<1>8. Paired'
  BY <1>1, <1>2, <1>4, <1>5, <1>7, StepPairs DEF Inv
<1>9. KeepsTrying'
  BY <1>2, <1>4, <1>6, StepTries
<1>. QED BY <1>5, <1>6, <1>8, <1>9 DEF Inv, NoCrossTalk

LEMMA RetryFiresKeeps ==
  ASSUME Inv, NEW c \in Calls, RetryFires(c)
  PROVE  Inv'
<1>. DEFINE r == IF active = call[c].key THEN Begun(call[c].room)
                 ELSE [Begun(call[c].room) EXCEPT !.at = "over"]
<1>1. /\ call[c] \in CallStates /\ call[c].key \in known \union removed
      /\ ~Client(c) /\ call[c].room \in known \union removed /\ known \subseteq Hosts
  BY DEF Inv, Types, Paired, Placed, Client, RetryFires
<1>2. /\ r \in CallStates /\ r.key = NoHost /\ r.room = call[c].room
      /\ r.at = IF active = call[c].key THEN "fetch" ELSE "over"
  BY <1>1 DEF CallStates, Places, Begun, Unused
<1>3. call' = [call EXCEPT ![c] = r]
  BY DEF RetryFires
<1>4. /\ call' \in [Calls -> CallStates] /\ call'[c] = r
      /\ \A d \in Calls : d # c => call'[d] = call[d]
  BY <1>2, <1>3, Update, Zenon DEF Inv
<1>. HIDE DEF r
<1>5. UNCHANGED <<known, removed, active, booting, status, timers, timer, state, listed, rtc,
                  term, ice, sent, strays>>
  BY DEF RetryFires, hostVars
<1>6. Types'
  BY <1>4, <1>5 DEF Inv, Types
<1>7. c \notin timers \union sent
  BY <1>1 DEF Inv, Paired, Placed
<1>8. Paired'
  BY <1>1, <1>2, <1>4, <1>5, <1>7, StepPairs DEF Inv
<1>9. KeepsTrying'
  <2>1. CASE active = call[c].key
    BY <2>1, <1>2, <1>4, <1>6, StepTries
  <2>2. CASE active # call[c].key
    BY <2>2, <1>1, <1>5 DEF KeepsTrying
  <2>. QED BY <2>1, <2>2
<1>. QED BY <1>5, <1>6, <1>8, <1>9 DEF Inv, NoCrossTalk

LEMMA StartPairingKeeps ==
  ASSUME Inv, NEW c \in Calls, StartPairing(c)
  PROVE  Inv'
<1>1. /\ call[c] \in CallStates /\ active \in known /\ known \subseteq Hosts
      /\ active # NoHost /\ ~Client(c) /\ call[c].room \in known \union removed
  BY PhoneAssumption DEF Inv, Types, Paired, Placed, Client, StartPairing
<1>2. c \notin timers \union sent
  BY <1>1 DEF Inv, Paired, Placed
<1>3. UNCHANGED <<known, removed, active, booting, timers, timer, state, listed, term, ice,
               sent, strays>>
  BY DEF StartPairing, hostVars
<1>4. CASE Goes(c, "over") /\ status' = "stopped" /\ UNCHANGED rtc
  <2>. DEFINE r == [call[c] EXCEPT !.at = "over"]
  <2>1. /\ r \in CallStates /\ r.at = "over" /\ r.room = call[c].room /\ r.key = call[c].key
        /\ call' = [call EXCEPT ![c] = r]
    BY <1>4, GoesTo DEF Inv, Places
  <2>2. /\ call' \in [Calls -> CallStates] /\ call'[c] = r
        /\ \A d \in Calls : d # c => call'[d] = call[d]
    BY <2>1, Update, Zenon DEF Inv
  <2>. HIDE DEF r
  <2>3. Types'
    BY <1>3, <1>4, <2>2 DEF Inv, Types
  <2>4. r.key \in known \union removed \union {NoHost}
    BY <2>1 DEF Inv, Paired, Placed
  <2>5. Paired'
    BY <1>1, <1>2, <1>3, <1>4, <2>1, <2>2, <2>4, StepPairs DEF Inv
  <2>6. KeepsTrying'
    BY <1>4, <2>3, StepTries
  <2>. QED BY <1>3, <2>3, <2>5, <2>6 DEF Inv, NoCrossTalk
<1>5. CASE /\ call' = [call EXCEPT ![c] = [@ EXCEPT !.at = "gather", !.key = active]]
           /\ rtc' = [rtc EXCEPT ![active] = c]
           /\ status' = "trying"
  <2>. DEFINE r == [call[c] EXCEPT !.at = "gather", !.key = active]
  <2>1. r \in CallStates /\ r.at = "gather" /\ r.key = active /\ r.room = call[c].room
    BY <1>1 DEF CallStates, Places
  <2>2. call' = [call EXCEPT ![c] = r]
    BY <1>5
  <2>3. /\ call' \in [Calls -> CallStates] /\ call'[c] = r
        /\ \A d \in Calls : d # c => call'[d] = call[d]
    BY <2>1, <2>2, Update, Zenon DEF Inv
  <2>. HIDE DEF r
  <2>4. /\ rtc' \in [Hosts -> Calls \union {None}]
        /\ \A h \in Hosts : rtc'[h] = IF h = active THEN c ELSE rtc[h]
    BY <1>1, <1>5 DEF Inv, Types
  <2>5. Types'
    BY <1>3, <1>5, <2>3, <2>4 DEF Inv, Types
  <2>6. Paired'
    BY <1>1, <1>2, <1>3, <2>1, <2>3, <2>4, StepPairs DEF Inv
  <2>7. KeepsTrying'
    BY <2>1, <2>3, <2>5, StepTries
  <2>. QED BY <1>3, <2>5, <2>6, <2>7 DEF Inv, NoCrossTalk
<1>. QED BY <1>4, <1>5, Zenon DEF StartPairing

\* The steps of a call whose client is made.
LEMMA ClientStep ==
  ASSUME Inv, NEW c \in Calls, call[c].at \in {"gather", "put"},
         NEW at \in {"put", "over", "again"}, Goes(c, at),
         UNCHANGED <<known, removed, active, booting, state, listed, rtc, term, ice, strays>>,
         status' \in {"trying", "stopped", "up", "down"}, timer' \in Calls \union {None},
         timers' \subseteq timers \union {c}, sent' \subseteq sent \union {c},
         at = "over" => status' # "trying" \/ c \in timers'
  PROVE  Inv'
<1>. DEFINE r == [call[c] EXCEPT !.at = at]
<1>1. /\ r \in CallStates /\ r.at = at /\ r.room = call[c].room /\ r.key = call[c].key
      /\ call' = [call EXCEPT ![c] = r]
  <2>1. at \in Places
    BY DEF Places
  <2>. QED BY <2>1, GoesTo DEF Inv
<1>2. /\ call' \in [Calls -> CallStates] /\ call'[c] = r
      /\ \A d \in Calls : d # c => call'[d] = call[d]
  BY <1>1, Update, Zenon DEF Inv
<1>. HIDE DEF r
<1>3. {call[c].room, call[c].key} \subseteq known \union removed /\ call[c].key # NoHost
  BY DEF Inv, Paired, Placed
<1>4. Types'
  BY <1>2 DEF Inv, Types
<1>5. Paired'
  BY <1>1, <1>2, <1>3, StepPairs DEF Inv
<1>6. KeepsTrying'
  BY <1>1, <1>2, <1>4, StepTries
<1>. QED BY <1>4, <1>5, <1>6 DEF Inv, NoCrossTalk

LEMMA AnswerKeeps ==
  ASSUME Inv, NEW c \in Calls, SendAnswer(c) \/ AnswerTaken(c) \/ PairingFails(c)
  PROVE  Inv'
<1>0. status \in {"trying", "stopped", "up", "down"} /\ timer \in Calls \union {None}
  BY DEF Inv, Types
<1>1. CASE SendAnswer(c)
  <2>1. CASE Goes(c, "put") /\ UNCHANGED status /\ (sent' = sent \union {c} \/ UNCHANGED sent)
    BY <1>0, <1>1, <2>1, ClientStep DEF SendAnswer, hostVars
  <2>2. CASE Goes(c, "over") /\ status' = "stopped" /\ UNCHANGED sent
    BY <1>0, <1>1, <2>2, ClientStep DEF SendAnswer, hostVars
  <2>. QED BY <1>1, <2>1, <2>2 DEF SendAnswer
<1>2. CASE AnswerTaken(c)
  BY <1>0, <1>2, ClientStep DEF AnswerTaken, hostVars
<1>3. CASE PairingFails(c)
  BY <1>0, <1>3, ClientStep DEF PairingFails, hostVars
<1>. QED BY <1>1, <1>2, <1>3

(***************************************************************************)
(* Connect: the calls it begins are fresh, the rest stays as it is.        *)
(***************************************************************************)
LEMMA ConnectKeeps ==
  ASSUME Inv, NEW D \in SUBSET known, NEW f \in [D -> Free], D # {} \/ removed # {},
         NEW calls \in [Calls -> CallStates], NEW running \in SUBSET timers,
         \A c \in Calls : /\ calls[c].room = call[c].room /\ calls[c].key = call[c].key
                          /\ \/ calls[c].at = call[c].at
                             \/ call[c].at = "again" /\ calls[c].at = "over",
         Connect(f, calls, running), booting' \in BOOLEAN
  PROVE  Inv'
<1>. DEFINE hostOf(c) == CHOOSE h \in DOMAIN f : f[h] = c
<1>1. /\ UNCHANGED <<known, removed, active, state, listed, sent, strays>>
      /\ status' = "trying"
      /\ timers' = running \ {timer} /\ timer' = None
  BY DEF Connect, Cleanup, hostVars
<1>2. DOMAIN f = D /\ D \subseteq Hosts /\ known \subseteq Hosts
  BY DEF Inv, Types
<1>3. \A c \in Range(f) : c \in Calls /\ call[c].at = "unused" /\ hostOf(c) \in D
  BY <1>2 DEF Range, Free
<1>4. \A h \in known : /\ Begun(h) \in CallStates /\ Begun(h).at = "fetch"
                       /\ Begun(h).room = h /\ Begun(h).key = NoHost
  BY <1>2 DEF Begun, Unused, CallStates, Places
<1>5. \A c \in Calls : call'[c] = IF c \in Range(f) THEN Begun(hostOf(c)) ELSE calls[c]
  BY DEF Connect
<1>6. call' \in [Calls -> CallStates]
  <2>1. call' = [c \in Calls |-> IF c \in Range(f) THEN Begun(hostOf(c)) ELSE calls[c]]
    BY DEF Connect
  <2>2. \A c \in Calls :
          (IF c \in Range(f) THEN Begun(hostOf(c)) ELSE calls[c]) \in CallStates
    BY <1>3, <1>4
  <2>. HIDE DEF hostOf
  <2>. QED BY <2>1, <2>2
<1>. HIDE DEF hostOf
<1>7. /\ rtc' \in [Hosts -> Calls \union {None}]
      /\ \A h \in Hosts, c \in Calls : rtc'[h] = c => rtc[h] = c
  BY Numbers DEF Connect, Cleanup, Inv, Types
<1>8. /\ term' \in [Hosts -> Calls \union {None, Absent}]
      /\ \A h \in Hosts, c \in Calls : term'[h] = c => term[h] = c
  BY Numbers DEF Connect, Cleanup, Inv, Types
<1>9. /\ ice' \in [Calls -> {"new", "up", "down", "closed"}]
      /\ \A c \in Calls : \/ ice'[c] = ice[c]
                          \/ ice'[c] = "closed" /\ \E h \in D : rtc[h] = c
  BY <1>2 DEF Connect, Cleanup, Inv, Types
<1>10. Types'
  BY <1>1, <1>6, <1>7, <1>8, <1>9 DEF Inv, Types
<1>11. ASSUME NEW c \in Calls, Client(c)
       PROVE  Client(c)' /\ call'[c].key = call[c].key /\ call'[c].room = call[c].room
  <2>1. call[c].at # "unused" /\ c \notin Range(f)
    BY <1>3, <1>11 DEF Inv, Paired, Placed, Client
  <2>. QED BY <1>5, <1>11, <2>1 DEF Client
<1>12. ASSUME NEW c \in Calls
       PROVE  /\ call'[c].at # "unused" => call'[c].room \in known \union removed
              /\ call'[c].key \in known \union removed \union {NoHost}
              /\ call'[c].at \in {"unused", "fetch"} => call'[c].key = NoHost
              /\ call'[c].at \in {"gather", "put", "again", "retry"} => call'[c].key # NoHost
  <2>1. CASE c \in Range(f)
    BY <1>3, <1>4, <1>5, <2>1
  <2>2. CASE c \notin Range(f)
    <3>1. call'[c] = calls[c]
      BY <1>5, <2>2
    <3>. QED BY <3>1 DEF Inv, Paired, Placed
  <2>. QED BY <2>1, <2>2
<1>13. ASSUME NEW c \in Calls, c \in (timers \union sent)' \/ ice'[c] # "new"
       PROVE  Client(c)'
  <2>1. c \in timers \union sent \/ ice[c] # "new" \/ \E h \in Hosts : rtc[h] = c
    BY <1>1, <1>2, <1>9, <1>13
  <2>2. Client(c)
    BY <2>1 DEF Inv, Paired, Placed, Wired
  <2>. QED BY <1>11, <2>2
<1>14. Placed'
  BY <1>1, <1>12, <1>13, Zenon DEF Placed
<1>15. Wired'
  <2>. SUFFICES ASSUME NEW h \in Hosts, NEW d \in Calls, rtc'[h] = d \/ term'[h] = d
                PROVE  Client(d)' /\ call'[d].key = h
    BY Zenon DEF Wired
  <2>1. Client(d) /\ call[d].key = h
    BY <1>7, <1>8 DEF Inv, Paired, Wired
  <2>. QED BY <1>11, <2>1
<1>16. Matched'
  <2>. SUFFICES ASSUME NEW c \in Calls, ice'[c] = "up" PROVE call'[c].key = call'[c].room
    BY Zenon DEF Matched
  <2>1. ice[c] = "up"
    BY <1>9
  <2>2. Client(c) /\ call[c].key = call[c].room
    BY <2>1 DEF Inv, Paired, Placed, Matched
  <2>. QED BY <1>11, <2>2
<1>17. KeepsTrying'
  <2>1. CASE D # {}
    <3>1. PICK h \in D : f[h] \in Calls /\ f[h] \in Range(f)
      BY <1>2, <2>1 DEF Range, Free
    <3>2. call'[f[h]].at = "fetch"
      BY <1>3, <1>4, <1>5, <3>1
    <3>. QED BY <1>10, <3>1, <3>2, StepTries
  <2>2. CASE removed # {}
    BY <1>1, <2>2 DEF KeepsTrying
  <2>. QED BY <2>1, <2>2
<1>. QED BY <1>1, <1>10, <1>14, <1>15, <1>16, <1>17 DEF Inv, Paired, NoCrossTalk

\* One host, as most callers have it, perhaps removed by now.
LEMMA ConnectOne ==
  ASSUME Inv, NEW g \in known \union removed, NEW f \in Begins(g),
         NEW calls \in [Calls -> CallStates], NEW running \in SUBSET timers,
         \A c \in Calls : /\ calls[c].room = call[c].room /\ calls[c].key = call[c].key
                          /\ \/ calls[c].at = call[c].at
                             \/ call[c].at = "again" /\ calls[c].at = "over",
         Connect(f, calls, running), UNCHANGED booting
  PROVE  Inv'
<1>1. PICK D \in SUBSET known : f \in [D -> Free] /\ (D # {} \/ removed # {})
  <2>1. CASE g \in known
    <3>1. {g} \in SUBSET known /\ f \in [{g} -> Free]
      BY <2>1 DEF Begins
    <3>. QED BY <3>1, Zenon
  <2>2. CASE g \notin known
    <3>1. f = << >> /\ removed # {}
      BY <2>2 DEF Begins
    <3>2. << >> \in [{} -> Free]
      OBVIOUS
    <3>. QED BY <3>1, <3>2
  <2>. QED BY <2>1, <2>2
<1>2. booting' \in BOOLEAN
  BY DEF Inv, Types
<1>. QED BY <1>1, <1>2, ConnectKeeps

LEMMA TapKeeps ==
  ASSUME Inv, Tap
  PROVE  Inv'
<1>1. PICK g \in known \union removed : g = active
  BY DEF Inv, Types
<1>2. PICK f \in Begins(g) : Connect(f, call, timers)
  BY <1>1, Zenon DEF Tap
<1>3. call \in [Calls -> CallStates] /\ UNCHANGED booting
  BY DEF Tap, Inv, Types
<1>. QED BY <1>2, <1>3, ConnectOne

LEMMA AgainFiresKeeps ==
  ASSUME Inv, NEW c \in Calls, AgainFires(c)
  PROVE  Inv'
<1>. DEFINE calls == [call EXCEPT ![c].at = "over"]
<1>1. PICK g \in known \union removed : g = active
  BY DEF Inv, Types
<1>2. PICK f \in Begins(g) : Connect(f, calls, timers)
  BY <1>1, Zenon DEF AgainFires
<1>3. /\ call \in [Calls -> CallStates] /\ call[c] \in CallStates /\ call[c].at = "again"
      /\ UNCHANGED booting
  BY DEF AgainFires, Inv, Types
<1>4. calls \in [Calls -> CallStates]
  BY <1>3 DEF CallStates, Places
<1>5. \A e \in Calls : /\ calls[e].room = call[e].room /\ calls[e].key = call[e].key
                       /\ \/ calls[e].at = call[e].at
                          \/ call[e].at = "again" /\ calls[e].at = "over"
  BY <1>3 DEF CallStates
<1>. HIDE DEF calls
<1>6. PICK k \in [Calls -> CallStates] : k = calls
  BY <1>4
<1>. QED BY <1>2, <1>3, <1>5, <1>6, ConnectOne

LEMMA TimerFiresKeeps ==
  ASSUME Inv, NEW c \in Calls, TimerFires(c)
  PROVE  Inv'
<1>1. /\ call \in [Calls -> CallStates] /\ timers \ {c} \in SUBSET timers
      /\ call[c].key \in known \union removed /\ c \in timers /\ UNCHANGED booting
  BY DEF TimerFires, Inv, Types, Paired, Placed, Client
<1>2. CASE state[call[c].key] # "up"
  <2>1. PICK g \in known \union removed : g = call[c].key
    BY <1>1
  <2>2. PICK f \in Begins(g) : Connect(f, call, timers \ {c})
    BY <1>2, <2>1, Zenon DEF TimerFires
  <2>. QED BY <1>1, <2>2, ConnectOne
<1>3. CASE state[call[c].key] = "up"
  <2>1. /\ UNCHANGED <<known, removed, active, status, call, timer, state, listed, rtc,
                    term, ice, sent, strays>>
        /\ timers' = timers \ {c}
    BY <1>3 DEF TimerFires, hostVars
  <2>2. Types'
    BY <1>1, <2>1 DEF Inv, Types
  <2>3. Paired'
    BY <2>1 DEF Inv, Paired, Placed, Client, Wired, Matched
  <2>4. KeepsTrying'
    BY <1>1, <1>3, <2>1 DEF KeepsTrying
  <2>. QED BY <2>1, <2>2, <2>3, <2>4 DEF Inv, NoCrossTalk
<1>. QED BY <1>2, <1>3

LEMMA ConnectOthersKeeps ==
  ASSUME Inv, ConnectOthers
  PROVE  Inv'
<1>1. booting' \in BOOLEAN /\ call \in [Calls -> CallStates] /\ active \in known
  BY DEF ConnectOthers, Inv, Types
<1>2. CASE known = {active}
  <2>1. UNCHANGED <<known, removed, active, status, callVars, state, listed, rtc, term, ice,
                 sent, strays>>
    BY <1>2 DEF ConnectOthers, hostVars
  <2>2. Types'
    BY <1>1, <2>1 DEF Inv, Types, callVars
  <2>3. Paired' /\ KeepsTrying'
    BY <2>1 DEF Inv, Paired, Placed, Client, Wired, Matched, KeepsTrying,
              hostVars, callVars
  <2>. QED BY <2>1, <2>2, <2>3 DEF Inv, NoCrossTalk
<1>3. CASE known # {active}
  <2>1. PICK f \in Injection(known \ {active}, Free) : Connect(f, call, timers)
    BY <1>3, Zenon DEF ConnectOthers
  <2>2. PICK D \in SUBSET known : D = known \ {active}
    OBVIOUS
  <2>3. f \in [D -> Free] /\ D # {}
    BY <1>1, <1>3, <2>2 DEF Injection
  <2>. QED BY <1>1, <2>1, <2>3, ConnectKeeps
<1>. QED BY <1>2, <1>3

(***************************************************************************)
(* Connections, messages, and what the person does to the hosts.           *)
(***************************************************************************)
LEMMA StateChangesKeeps ==
  ASSUME Inv, NEW c \in Calls, NEW s \in IceStates, StateChanges(c, s)
  PROVE  Inv'
<1>1. /\ UNCHANGED <<known, removed, active, booting, callVars, listed, rtc, term,
                   sent, strays>>
      /\ Client(c) /\ call[c].key \in known \union removed
      /\ call[c].key \in Hosts /\ active \in known
  BY DEF StateChanges, Client, hostVars, Inv, Types, Paired, Placed
<1>2. /\ state' \in [Hosts -> IceStates] /\ state'[call[c].key] = s
      /\ ice' \in [Calls -> {"new", "up", "down", "closed"}]
      /\ ice'[c] = IF s = "completed" THEN ice[c] ELSE s
      /\ \A d \in Calls : d # c => ice'[d] = ice[d]
  BY <1>1 DEF StateChanges, Inv, Types, IceStates
<1>3. status' \in {"trying", "stopped", "up", "down"}
  BY DEF StateChanges, Inv, Types
<1>4. Types'
  BY <1>1, <1>2, <1>3 DEF Inv, Types, callVars
<1>5. Placed'
  BY <1>1, <1>2 DEF Inv, Paired, Placed, Client, callVars
<1>6. Wired'
  BY <1>1 DEF Inv, Paired, Wired, Client, callVars
<1>7. ice'[c] = "up" => call[c].key = call[c].room
  BY <1>2 DEF StateChanges, Inv, Paired, Matched
<1>8. Matched'
  BY <1>1, <1>2, <1>7 DEF Inv, Paired, Matched, callVars
<1>9. KeepsTrying'
  <2>1. CASE s = "new"
    <3>1. call[c].at \in {"gather", "put"} /\ call' = call
      BY <1>1, <2>1 DEF StateChanges, callVars
    <3>. QED BY <1>4, <3>1, StepTries
  <2>2. CASE s # "new"
    <3>1. known = {active} /\ removed = {} => state'[active] # "new"
      BY <1>1, <1>2, <2>2
    <3>. QED BY <1>1, <3>1 DEF KeepsTrying
  <2>. QED BY <2>1, <2>2
<1>. QED BY <1>1, <1>4, <1>5, <1>6, <1>8, <1>9 DEF Inv, Paired, NoCrossTalk

\* Whatever uses a connection that is up finds it is that of its own host.
LEMMA UpMatches ==
  ASSUME Inv, NEW c, Up(c)
  PROVE  /\ c \in Calls /\ Client(c)
         /\ call[c].key \in Hosts /\ call[c].room = call[c].key
BY DEF Inv, Types, Paired, Placed, Matched, Up, Client

\* A terminal made now has the client of its own host, or none.
LEMMA TermsForWires ==
  ASSUME Inv, NEW h \in Hosts, term' = TermsFor(h)
  PROVE  /\ term' \in [Hosts -> Calls \union {None, Absent}]
         /\ \A g \in Hosts, d \in Calls : term'[g] = d => rtc[g] = d \/ term[g] = d
<1>1. term \in [Hosts -> Calls \union {None, Absent}] /\ rtc \in [Hosts -> Calls \union {None}]
  BY DEF Inv, Types
<1>. QED BY <1>1 DEF TermsFor

LEMMA MessageKeeps ==
  ASSUME Inv, NEW c \in Calls, Up(c),
         term' = TermsFor(call[c].key), listed' \subseteq Hosts,
         UNCHANGED <<known, removed, active, booting, call, state, rtc, ice, sent, strays>>,
         status' \in {"trying", "stopped", "up", "down"},
         timers' \subseteq timers, timer' \in Calls \union {None},
         \/ status' = "up" \/ removed # {}
         \/ UNCHANGED <<status, timers>>
  PROVE  Inv'
<1>1. call[c].key \in Hosts
  BY UpMatches
<1>2. /\ term' \in [Hosts -> Calls \union {None, Absent}]
      /\ \A h \in Hosts, d \in Calls : term'[h] = d => rtc[h] = d \/ term[h] = d
  BY <1>1, TermsForWires
<1>3. Types'
  BY <1>2 DEF Inv, Types
<1>4. Placed' /\ Matched'
  BY DEF Inv, Paired, Placed, Matched, Client
<1>5. Wired'
  BY <1>2 DEF Inv, Paired, Wired, Client
<1>6. KeepsTrying'
  BY DEF Inv, KeepsTrying
<1>. QED BY <1>3, <1>4, <1>5, <1>6 DEF Inv, Paired, NoCrossTalk

LEMMA OutputKeeps ==
  ASSUME Inv, NEW c \in Calls, Output(c) \/ List(c)
  PROVE  Inv'
<1>0. /\ status \in {"trying", "stopped", "up", "down"} /\ timer \in Calls \union {None}
      /\ listed \subseteq Hosts /\ known \subseteq Hosts
  BY DEF Inv, Types
<1>1. CASE Output(c)
  <2>1. call[c].room = call[c].key
    BY <1>1, UpMatches DEF Output
  <2>2. strays' = strays
    BY <1>1, <2>1 DEF Output, Moves
  <2>. QED BY <1>0, <1>1, <2>2, MessageKeeps DEF Output, hostVars, callVars
<1>2. CASE List(c)
  <2>1. call[c].key \in known \union removed
    BY <1>2, UpMatches DEF List, Inv, Paired, Placed, Client
  <2>. QED BY <1>0, <1>2, <2>1, MessageKeeps DEF List, hostVars
<1>. QED BY <1>1, <1>2

LEMMA KeysKeeps ==
  ASSUME Inv, Keys
  PROVE  Inv'
<1>1. /\ UNCHANGED <<known, removed, active, booting, status, callVars,
                  state, listed, rtc, term, ice, sent>>
      /\ Up(term[active]) /\ active \in Hosts
  BY DEF Keys, hostVars, Inv, Types
<1>2. PICK c \in Calls : c = term[active]
  BY <1>1 DEF Up
<1>3. call[c].key = active /\ call[c].room = active
  BY <1>1, <1>2, UpMatches DEF Inv, Paired, Wired
<1>4. strays' = strays
  BY <1>2, <1>3 DEF Keys, Moves
<1>5. Types'
  BY <1>1, <1>4 DEF Inv, Types, callVars
<1>6. Paired' /\ KeepsTrying'
  BY <1>1 DEF Inv, Paired, Placed, Wired, Matched, Client, KeepsTrying, callVars
<1>. QED BY <1>4, <1>5, <1>6 DEF Inv, NoCrossTalk

LEMMA SwitchHostKeeps ==
  ASSUME Inv, NEW h \in Hosts, SwitchHost(h)
  PROVE  Inv'
<1>1. /\ UNCHANGED <<known, removed, booting, callVars, state, listed, rtc, ice, sent, strays>>
      /\ h \in known /\ known # {h} /\ active' = h
  BY DEF SwitchHost, Inv, Types
<1>2. status' \in {"trying", "stopped", "up", "down"}
  BY DEF SwitchHost, Inv, Types
<1>3. /\ term' \in [Hosts -> Calls \union {None, Absent}]
      /\ \A g \in Hosts, d \in Calls : term'[g] = d => rtc[g] = d \/ term[g] = d
  <2>1. CASE h \in listed
    <3>1. term' = TermsFor(h)
      BY <2>1 DEF SwitchHost
    <3>. QED BY <3>1, TermsForWires
  <2>2. CASE h \notin listed
    BY <2>2 DEF SwitchHost, Inv, Types
  <2>. QED BY <2>1, <2>2
<1>4. Types'
  BY <1>1, <1>2, <1>3 DEF Inv, Types, callVars
<1>5. Placed' /\ Matched'
  BY <1>1 DEF Inv, Paired, Placed, Matched, Client, callVars
<1>6. Wired'
  BY <1>1, <1>3 DEF Inv, Paired, Wired, Client, callVars
<1>7. KeepsTrying'
  BY <1>1 DEF KeepsTrying
<1>. QED BY <1>1, <1>4, <1>5, <1>6, <1>7 DEF Inv, Paired, NoCrossTalk

LEMMA RemoveHostKeeps ==
  ASSUME Inv, NEW h \in Hosts, RemoveHost(h)
  PROVE  Inv'
<1>1. /\ UNCHANGED <<booting, status, call, state, listed, sent, strays>>
      /\ known' = known \ {h} /\ removed' = removed \union {h} /\ h \in known
      /\ timers' \subseteq timers /\ timer' = None
  BY DEF RemoveHost, Cleanup
<1>2. active' \in known'
  BY <1>1 DEF RemoveHost, Inv, Types
<1>3. /\ rtc' \in [Hosts -> Calls \union {None}]
      /\ \A g \in Hosts, c \in Calls : rtc'[g] = c => rtc[g] = c
  BY Numbers DEF RemoveHost, Cleanup, Inv, Types
<1>4. /\ term' \in [Hosts -> Calls \union {None, Absent}]
      /\ \A g \in Hosts, c \in Calls : term'[g] = c => term[g] = c
  BY Numbers DEF RemoveHost, Cleanup, Inv, Types
<1>5. /\ ice' \in [Calls -> {"new", "up", "down", "closed"}]
      /\ \A c \in Calls : \/ ice'[c] = ice[c]
                          \/ ice'[c] = "closed" /\ rtc[h] = c
  BY DEF RemoveHost, Cleanup, Inv, Types
<1>6. Types'
  <2>1. known' \in (SUBSET Hosts) \ {{}} /\ removed' \subseteq Hosts \ known'
    BY <1>1, <1>2 DEF Inv, Types
  <2>. QED BY <1>1, <1>2, <1>3, <1>4, <1>5, <2>1 DEF Inv, Types
<1>7. (known \union removed)' = known \union removed
  BY <1>1
<1>8. Placed'
  <2>1. \A c \in Calls : ice'[c] # "new" => ice[c] # "new" \/ Client(c)
    BY <1>5 DEF Inv, Paired, Wired
  <2>. QED BY <1>1, <1>7, <2>1 DEF Inv, Paired, Placed, Client
<1>9. Wired'
  BY <1>1, <1>3, <1>4 DEF Inv, Paired, Wired, Client
<1>10. Matched'
  BY <1>1, <1>5 DEF Inv, Paired, Matched
<1>11. KeepsTrying'
  BY <1>1 DEF KeepsTrying
<1>. QED BY <1>1, <1>6, <1>8, <1>9, <1>10, <1>11 DEF Inv, Paired, NoCrossTalk

(***************************************************************************)
(* The theorems.                                                           *)
(***************************************************************************)
LEMMA EveryStep == Inv /\ [Next]_vars => Inv'
<1>. SUFFICES ASSUME Inv, [Next]_vars PROVE Inv'
  OBVIOUS
<1>1. CASE UNCHANGED vars
  BY <1>1 DEF vars, hostVars, callVars, Inv, Types, Paired, Placed, Wired, Matched, Client,
              NoCrossTalk, KeepsTrying
<1>2. ASSUME NEW c \in Calls, Task(c) PROVE Inv'
  BY <1>2, FetchFailsKeeps, RetryFiresKeeps, StartPairingKeeps, AnswerKeeps,
     AgainFiresKeeps, TimerFiresKeeps, Zenon DEF Task
<1>3. ASSUME NEW c \in Calls, Output(c) \/ List(c) PROVE Inv'
  BY <1>3, OutputKeeps
<1>4. ASSUME NEW c \in Calls, NEW s \in IceStates, StateChanges(c, s) PROVE Inv'
  BY <1>4, StateChangesKeeps
<1>5. ASSUME NEW h \in Hosts, SwitchHost(h) \/ RemoveHost(h) PROVE Inv'
  BY <1>5, SwitchHostKeeps, RemoveHostKeeps
<1>6. CASE ConnectOthers \/ Tap \/ Keys
  BY <1>6, ConnectOthersKeeps, TapKeeps, KeysKeeps
<1>. QED BY <1>1, <1>2, <1>3, <1>4, <1>5, <1>6, Zenon DEF Next

LEMMA Always == Spec => []Inv
BY Beginning, EveryStep, PTL DEF Spec

\* Types hold for any hosts and any number of calls, and every call that is pairing, and
\* every pair timeout, has a host that is known: _ctx is never null in startPairing.
THEOREM PhoneTypeOK == Spec => []TypeOK
<1>1. Inv => TypeOK
  BY Typed DEF Inv, Paired
<1>. QED BY <1>1, Always, PTL

\* No output is shown, and no key sent, as another host's, however many hosts there are
\* and however the calls of connect overlap with the change of the active host.
THEOREM PhoneNoCrossTalk == Spec => []NoCrossTalk
<1>1. Inv => NoCrossTalk
  BY DEF Inv
<1>. QED BY <1>1, Always, PTL

\* With one host, the page that says it is trying to connect is, however many calls of
\* connect share the one timer.
THEOREM PhoneKeepsTrying == Spec => []KeepsTrying
<1>1. Inv => KeepsTrying
  BY DEF Inv
<1>. QED BY <1>1, Always, PTL
=============================================================================
