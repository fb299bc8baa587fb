------------------------------ MODULE PhoneApp ------------------------------
(***************************************************************************)
(* The page with several hosts: which host a call of connect pairs with,   *)
(* and whose terminal a connection feeds.  The page has one thread, which  *)
(* another call can take over at each await; the methods find their host   *)
(* through _activeKey, and several set it for a while to another one.      *)
(*                                                                         *)
(* Each host is reached through its room of the relay, which holds its     *)
(* offer.  What the host and the relay do with an answer, and the mode     *)
(* without a relay, are in Signaling.  A host has one session here, hence  *)
(* at most one terminal.                                                   *)
(***************************************************************************)
EXTENDS Integers, FiniteSets, Functions

CONSTANTS Hosts,      \* keys of the hosts the phone may know
          NoHost,     \* null
          MaxCalls    \* bound: calls of connect

ASSUME PhoneAssumption ==
  IsFiniteSet(Hosts) /\ NoHost \notin Hosts /\ MaxCalls \in Nat \ {0}

Calls == 1 .. MaxCalls   \* a call of connect, its RTCClient and its timer
None == 0
Absent == -1

VARIABLES
  known,    \* keys of this._hosts
  removed,  \* hosts deleted from it
  active,   \* this._activeKey between two tasks
  booting,  \* init waits for the first connect
  status,   \* the status line: "trying", "stopped", "up" or "down"
  call,     \* where each call of connect is: [at, room, key]
  timers,   \* calls whose pair timeout is running
  timer,    \* this._pairTimeout
  state,    \* ctx.state of each host: "new" (or checking), "up", "completed" or "down"
  listed,   \* hosts with a saved list of sessions, ctx.sessionList
  rtc,      \* ctx.rtc
  term,     \* the RTCClient the terminal of each host sends its keys to
  ice,      \* each RTCPeerConnection: "new", "up", "down" or "closed" by the page
  sent,     \* calls whose answer is in the room of call.key
  strays    \* history: <<h, g>> if output of h was shown, or keys for it sent, as g's

callVars == <<call, timers, timer>>
hostVars == <<known, removed, active>>
vars == <<hostVars, booting, status, callVars, state, listed, rtc, term, ice, sent, strays>>

Unused == [at |-> "unused", room |-> NoHost, key |-> NoHost]
Begun(h) == [Unused EXCEPT !.at = "fetch", !.room = h]
Free == {c \in Calls : call[c].at = "unused"}

\* The hosts of the last visit, and the one whose QR code was scanned; the first
\* call of connect has begun.
Init ==
  /\ known \in (SUBSET Hosts) \ {{}} /\ removed = {} /\ active \in known
  /\ booting = TRUE /\ status = "trying"
  /\ call = [c \in Calls |-> IF c = 1 THEN Begun(active) ELSE Unused]
  /\ timers = {} /\ timer = None
  /\ state = [h \in Hosts |-> "new"] /\ listed = {}
  /\ rtc = [h \in Hosts |-> None]
  /\ term = [h \in Hosts |-> Absent]
  /\ ice = [c \in Calls |-> "new"] /\ sent = {} /\ strays = {}

\* cleanup closes the clients of these hosts and stops the one timer the page knows
\* of, whosever it is.
Cleanup(hosts, running) ==
  /\ timers' = running \ {timer} /\ timer' = None
  /\ rtc' = [h \in Hosts |-> IF h \in hosts THEN None ELSE rtc[h]]
  /\ ice' = [c \in Calls |-> IF \E h \in hosts : rtc[h] = c THEN "closed" ELSE ice[c]]
  /\ term' = [h \in Hosts |-> IF h \in hosts THEN Absent ELSE term[h]]

\* connect, up to the fetch, for the hosts of f one after the other, each being the
\* active one meanwhile.
Connect(f, calls, running) ==
  /\ call' = [c \in Calls |->
                IF c \in Range(f) THEN Begun(CHOOSE h \in DOMAIN f : f[h] = c) ELSE calls[c]]
  /\ Cleanup(DOMAIN f, running)
  /\ status' = "trying"
  /\ UNCHANGED <<hostVars, state, listed, sent, strays>>

\* For a host that has been removed, connect stops after cleanup.
Begins(h) == IF h \in known THEN [{h} -> Free] ELSE {<< >>}

\* A tap on the status line.
Tap ==
  /\ \E f \in Begins(active) : Connect(f, call, timers)
  /\ UNCHANGED booting

\* init goes on when the first connect has returned: at once, or here after other tasks.
ConnectOthers ==
  /\ booting /\ call[1].at \notin {"fetch", "gather", "put"}
  /\ booting' = FALSE
  /\ IF known = {active}
     THEN UNCHANGED <<hostVars, status, callVars, state, listed, rtc, term, ice, sent, strays>>
     ELSE \E f \in Injection(known \ {active}, Free) : Connect(f, call, timers)

Goes(c, at) == call' = [call EXCEPT ![c].at = at]

\* A slip: no timer is set for the next attempt.
FetchFailsForGood(c) ==
  /\ call[c].at = "fetch"
  /\ Goes(c, "over") /\ status' = "trying"
  /\ UNCHANGED <<hostVars, booting, timers, timer, state, listed, rtc, term, ice, sent, strays>>

FetchFails(c) ==
  /\ call[c].at = "fetch"
  /\ call' = [call EXCEPT ![c] = [@ EXCEPT !.at = "retry", !.key = active]]
  /\ status' = "trying"
  /\ UNCHANGED <<hostVars, booting, timers, timer, state, listed, rtc, term, ice, sent, strays>>

RetryFires(c) ==
  /\ call[c].at = "retry"
  /\ call' = [call EXCEPT ![c] =
                IF active = @.key THEN Begun(@.room)
                ELSE [Begun(@.room) EXCEPT !.at = "over"]]
  /\ UNCHANGED <<hostVars, booting, status, timers, timer, state, listed, rtc, term,
                 ice, sent, strays>>

\* A slip: the host is looked up by whoever needs it.
StartPairingLate(c) ==
  /\ call[c].at = "fetch"
  /\ Goes(c, "gather") /\ rtc' = [rtc EXCEPT ![active] = c] /\ status' = "trying"
  /\ UNCHANGED <<hostVars, booting, timers, timer, state, listed, term, ice, sent, strays>>

\* The offer is there and decompressed: the host is the one that is active now.
StartPairing(c) ==
  /\ call[c].at = "fetch"
  /\ \/ /\ call' = [call EXCEPT ![c] = [@ EXCEPT !.at = "gather", !.key = active]]
        /\ rtc' = [rtc EXCEPT ![active] = c]
        /\ status' = "trying"
     \/ Goes(c, "over") /\ status' = "stopped" /\ UNCHANGED rtc
  /\ UNCHANGED <<hostVars, booting, timers, timer, state, listed, term, ice, sent, strays>>

\* The answer is made, also by a client closed meanwhile, and sent.
SendAnswer(c) ==
  /\ call[c].at = "gather"
  /\ \/ Goes(c, "put") /\ UNCHANGED status /\ (sent' = sent \union {c} \/ UNCHANGED sent)
     \/ Goes(c, "over") /\ status' = "stopped" /\ UNCHANGED sent
  /\ UNCHANGED <<hostVars, booting, timers, timer, state, listed, rtc, term, ice, strays>>

AnswerTaken(c) ==
  /\ call[c].at = "put" /\ Goes(c, "over")
  /\ IF c \in sent THEN status' = "trying" /\ timers' = timers \union {c} /\ timer' = c
     ELSE status' = "stopped" /\ UNCHANGED <<timers, timer>>
  /\ UNCHANGED <<hostVars, booting, state, listed, rtc, term, ice, sent, strays>>

\* An exception on the way.
PairingFails(c) ==
  /\ call[c].at \in {"gather", "put"}
  /\ Goes(c, "again") /\ status' = "trying"
  /\ UNCHANGED <<hostVars, booting, timers, timer, state, listed, rtc, term, ice, sent, strays>>

AgainFires(c) ==
  /\ call[c].at = "again"
  /\ \E f \in Begins(active) : Connect(f, [call EXCEPT ![c].at = "over"], timers)
  /\ UNCHANGED booting

TimerFires(c) ==
  /\ c \in timers
  /\ IF state[call[c].key] # "up"
     THEN \E f \in Begins(call[c].key) : Connect(f, call, timers \ {c})
     ELSE /\ timers' = timers \ {c}
          /\ UNCHANGED <<hostVars, status, call, timer, state, listed, rtc, term, ice, sent, strays>>
  /\ UNCHANGED booting

Task(c) == \/ FetchFails(c) \/ RetryFires(c) \/ StartPairing(c)
           \/ SendAnswer(c) \/ AnswerTaken(c) \/ PairingFails(c) \/ AgainFires(c)
           \/ TimerFires(c)

(***************************************************************************)
(* Connections.  One comes up only between a phone and the host whose      *)
(* offer it answered: the keys in offer and answer must fit.               *)
(***************************************************************************)
IceStates == {"new", "up", "completed", "down"}

StateChanges(c, s) ==
  /\ call[c].at # "retry" /\ call[c].key # NoHost
  /\ \/ s = "up" /\ ice[c] \in {"new", "down"} /\ c \in sent /\ call[c].key = call[c].room
     \/ s = "down" /\ ice[c] \in {"new", "up"}
     \/ s = "new" /\ ice[c] = "new" /\ call[c].at \in {"gather", "put"}   \* checking
     \/ s = "completed" /\ ice[c] = "up"
  /\ ice' = [ice EXCEPT ![c] = IF s = "completed" THEN @ ELSE s]
  /\ state' = [state EXCEPT ![call[c].key] = s]
  /\ status' = IF call[c].key = active /\ s \in {"up", "down"} THEN s ELSE status
  /\ UNCHANGED <<hostVars, booting, callVars, listed, rtc, term, sent, strays>>

Up(c) == c \in Calls /\ ice[c] = "up"

(***************************************************************************)
(* Messages.  onMessage makes the host of its client the active one while  *)
(* the message is handled; a terminal keeps the client it is made with.    *)
(***************************************************************************)
\* The terminals when one of host h is needed.  That of a removed host is not kept.
TermsFor(h) ==
  IF h \notin known THEN term ELSE [term EXCEPT ![h] = IF @ = Absent THEN rtc[h] ELSE @]

\* What is host h's is taken for host g's.
Moves(h, g) == strays' = strays \union ({<<h, g>>} \ {<<h, h>>})

Output(c) ==
  /\ Up(c)
  /\ term' = TermsFor(call[c].key)
  /\ Moves(call[c].room, call[c].key)
  /\ UNCHANGED <<hostVars, booting, status, callVars, state, listed, rtc, ice, sent>>

\* A list of sessions is saved; it stops the timer the page knows of, whosever it is.
List(c) ==
  /\ Up(c)
  /\ term' = TermsFor(call[c].key)
  /\ listed' = listed \union ({call[c].key} \intersect known)
  /\ status' = IF call[c].key \in known THEN "up" ELSE status
  /\ timers' = timers \ {timer} /\ timer' = None
  /\ UNCHANGED <<hostVars, booting, call, state, rtc, ice, sent, strays>>

Keys ==
  /\ Up(term[active])
  /\ Moves(call[term[active]].room, active)
  /\ UNCHANGED <<hostVars, booting, status, callVars, state, listed, rtc, term, ice, sent>>

\* A slip: the terminals made again send to the client of the host on display before.
SwitchHostStale(h) ==
  /\ h \in known \ {active}
  /\ active' = h
  /\ status' = IF state[h] \in {"up", "down"} THEN state[h] ELSE "trying"
  /\ term' = IF h \in listed /\ term[h] = Absent THEN [term EXCEPT ![h] = rtc[active]] ELSE term
  /\ UNCHANGED <<known, removed, booting, callVars, state, listed, rtc, ice, sent, strays>>

\* The tabs are drawn from the list saved.  A terminal that cleanup removed is made
\* again, with the client of that moment, perhaps none or one still pairing.
SwitchHost(h) ==
  /\ h \in known \ {active}
  /\ active' = h
  /\ status' = IF state[h] \in {"up", "down"} THEN state[h] ELSE "trying"
  /\ term' = IF h \in listed THEN TermsFor(h) ELSE term
  /\ UNCHANGED <<known, removed, booting, callVars, state, listed, rtc, ice, sent, strays>>

\* A long press on a tab; one host has none.  The next in the order of the hosts,
\* here any, becomes the active one, and the status line stays.
RemoveHost(h) ==
  /\ h \in known /\ known # {h}
  /\ known' = known \ {h} /\ removed' = removed \union {h}
  /\ IF active = h THEN active' \in known \ {h} ELSE UNCHANGED active
  /\ Cleanup({h}, timers)
  /\ UNCHANGED <<booting, status, call, state, listed, sent, strays>>

Next == \/ \E c \in Calls : \/ Task(c) \/ Output(c) \/ List(c)
                            \/ \E s \in IceStates : StateChanges(c, s)
        \/ ConnectOthers \/ Tap \/ Keys
        \/ \E h \in Hosts : SwitchHost(h) \/ RemoveHost(h)

Spec == Init /\ [][Next]_vars

-----------------------------------------------------------------------------
Places == {"unused", "fetch", "gather", "put", "retry", "again", "over"}

\* The type invariant; what is paired has a host, and so has a running timer.
TypeOK ==
  /\ known \in (SUBSET Hosts) \ {{}} /\ removed \subseteq Hosts \ known
  /\ active \in known /\ booting \in BOOLEAN
  /\ status \in {"trying", "stopped", "up", "down"}
  /\ call \in [Calls -> [at : Places, room : Hosts \union {NoHost},
                         key : Hosts \union {NoHost}]]
  /\ \A c \in Calls :
       call[c].at \in {"gather", "put", "again", "retry"} \/ c \in timers \union sent =>
         {call[c].key, call[c].room} \subseteq known \union removed
  /\ timers \subseteq Calls /\ timer \in Calls \union {None}
  /\ state \in [Hosts -> IceStates] /\ listed \subseteq Hosts
  /\ rtc \in [Hosts -> Calls \union {None}]
  /\ term \in [Hosts -> Calls \union {None, Absent}]
  /\ ice \in [Calls -> {"new", "up", "down", "closed"}] /\ sent \subseteq Calls
  /\ strays \subseteq Hosts \X Hosts

\* Whatever host is active when a call goes on, and whichever client a terminal was
\* made with: output is shown under the host it comes from, and keys go to the host
\* whose terminal they were typed into, or nowhere.
NoCrossTalk == strays = {}

\* A page that has only had one host, not connected, that says it is trying to connect
\* is: a call is under way or a timer will make one, however calls overlap and fail.
KeepsTrying ==
  known = {active} /\ removed = {} /\ status = "trying" /\ state[active] = "new" =>
    \/ timers # {}
    \/ \E c \in Calls : call[c].at \in Places \ {"unused", "over"}

(***************************************************************************)
(* Why they hold: the parts of the inductive invariant.                    *)
(***************************************************************************)

\* startPairing has made an RTCClient.
Client(c) == call[c].key # NoHost /\ call[c].at # "retry"

Placed ==
  \A c \in Calls :
    /\ call[c].at # "unused" => call[c].room \in known \union removed
    /\ call[c].key \in known \union removed \union {NoHost}
    /\ call[c].at \in {"unused", "fetch"} => call[c].key = NoHost
    /\ call[c].at \in {"gather", "put", "again", "retry"} => call[c].key # NoHost
    /\ c \in timers \union sent \/ ice[c] # "new" => Client(c)

\* A host's client, and the one its terminal was made with, were made for it.
Wired == \A h \in Hosts, c \in Calls :
  rtc[h] = c \/ term[h] = c => Client(c) /\ call[c].key = h

Matched == \A c \in Calls :
  ice[c] = "up" => call[c].key = call[c].room

IInv == TypeOK /\ Placed /\ Wired /\ Matched /\ NoCrossTalk /\ KeepsTrying

(***************************************************************************)
(* What the page should do and does not.                                   *)
(***************************************************************************)

\* While the status line of the host on display says it is connected, a terminal of it
\* has a client to send its keys to.
TerminalsWired == status = "up" /\ Up(rtc[active]) => term[active] # None

\* The calls of connect that init makes for the other hosts, while the first host is on
\* display, pair with the hosts they are for.
BackgroundConnects ==
  ~booting /\ removed = {} => \A c \in Calls : Client(c) => call[c].key = call[c].room
=============================================================================
