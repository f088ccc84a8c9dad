--------------------------- MODULE SessionBroker ---------------------------
(***************************************************************************)
(* The WebSocket broker of one live session: websockets/                   *)
(* manualSessionBroker.ts, and flowEditorBroker.ts, which is the same      *)
(* state machine with fewer status messages.                               *)
(*                                                                         *)
(* A session id maps to an entry with a slot for the frontend's socket and *)
(* one for the crawler's.  A new socket of a role replaces the one in the  *)
(* slot, which is asked to close; its close event comes later, and         *)
(* messages it sent before still arrive in between.  Every handler of a    *)
(* socket looks the entry up again by session id, creating it when it is   *)
(* not there.  A clean-up timer belongs to the entry it was armed for, but *)
(* deletes by session id: once its entry has left the map it is stale.     *)
(*                                                                         *)
(* Handlers run to completion (one thread), so each event is one action.   *)
(* Abstracted: message contents, the upgrade's authorisation and ticket,   *)
(* and the 120 s of the timer.  A socket is used once.                     *)
(***************************************************************************)
EXTENDS Naturals, FiniteSets

CONSTANTS
    Frontends,  \* sockets a browser may open on the session
    Crawlers,   \* sockets a worker may open on it
    None        \* no socket

ASSUME SocketsAssumption ==
    /\ Frontends \cap Crawlers = {}
    /\ None \notin Frontends \cup Crawlers
    /\ IsFiniteSet(Frontends \cup Crawlers)

VARIABLES
    sock,    \* readyState of each socket; "new" before it connects
    entry,   \* the session's value in the sessions map, or NoEntry
    stale,   \* timers still to fire whose entry has left the map
    sent     \* the last control message each socket was sent

vars == <<sock, entry, stale, sent>>

Sockets == Frontends \cup Crawlers

-----------------------------------------------------------------------------
(* Types                                                                   *)

NoEntry == [absent |-> TRUE]

Entry == [frontend : Frontends \cup {None}, crawler : Crawlers \cup {None},
          ready : BOOLEAN,    \* crawlerReady
          flag  : BOOLEAN,    \* frontendDisconnectedBeforeCrawler
          timer : BOOLEAN]    \* cleanupTimer

EmptyEntry == [frontend |-> None, crawler |-> None, ready |-> FALSE, flag |-> FALSE,
               timer |-> FALSE]

Control == {"nothing", "session.disconnect", "frontend_connected", "crawler_connected",
            "crawler_disconnected", "disconnect_pending", "not_connected"}

TypeOK ==
    /\ sock \in [Sockets -> {"new", "open", "closing", "closed"}]
    /\ entry \in Entry \cup {NoEntry}
    /\ stale \in Nat
    /\ sent \in [Sockets -> Control]

-----------------------------------------------------------------------------
(* Helpers                                                                 *)

\* getSessionSockets: the entry in the map, created when there is none.
Current == IF entry = NoEntry THEN EmptyEntry ELSE entry

Open(w) == w # None /\ sock[w] = "open"

\* The messages as sent when the sockets in `to` get `message`: send() drops what
\* is not for an OPEN socket.
Told(to, message) ==
    [w \in Sockets |-> IF w \in to /\ Open(w) THEN message ELSE sent[w]]

\* Slip: an empty entry with a disconnect to remember is kept without a timer.
CleanUpUnarmed(e) ==
    IF e.frontend # None \/ e.crawler # None \/ e.flag
      THEN entry' = e /\ UNCHANGED stale
      ELSE /\ entry' = NoEntry
           /\ stale' = IF e.timer THEN stale + 1 ELSE stale

\* cleanupSessionIfEmpty, on the entry e a close handler leaves: an entry with a
\* disconnect to remember stays for the timer, another empty one is deleted, and
\* a timer it had goes on without it.
CleanUp(e) ==
    IF e.frontend # None \/ e.crawler # None
      THEN entry' = e /\ UNCHANGED stale
      ELSE IF e.flag
             THEN entry' = [e EXCEPT !.timer = TRUE] /\ UNCHANGED stale
             ELSE /\ entry' = NoEntry
                  /\ stale' = IF e.timer THEN stale + 1 ELSE stale

-----------------------------------------------------------------------------
(* Events                                                                  *)

\* Slip: the clean-up timer is left running.
AttachFrontendArmed(f) ==
    /\ sock[f] = "new"
    /\ entry' = [Current EXCEPT !.frontend = f, !.flag = FALSE]
    /\ sock' = [sock EXCEPT ![f] = "open"]
    /\ UNCHANGED <<stale, sent>>

\* attachSocket for a frontend: it replaces the one in the slot and forgets a
\* disconnect that was pending.
AttachFrontend(f) ==
    /\ sock[f] = "new"
    /\ LET e == Current
           old == e.frontend
       IN /\ entry' = [e EXCEPT !.frontend = f, !.flag = FALSE, !.timer = FALSE]
          /\ sock' = [w \in Sockets |->
                        CASE w = f -> "open"
                          [] w = old /\ Open(old) -> "closing"
                          [] OTHER -> sock[w]]
          /\ sent' = [sent EXCEPT ![f] = "frontend_connected"]
    /\ UNCHANGED stale

\* Slip: a crawler that attaches is not told of a pending disconnect.
AttachCrawlerUntold(c) ==
    /\ sock[c] = "new"
    /\ entry' = [Current EXCEPT !.crawler = c, !.ready = FALSE, !.timer = FALSE]
    /\ sock' = [sock EXCEPT ![c] = "open"]
    /\ UNCHANGED <<stale, sent>>

\* attachSocket for a crawler: it starts unready, the frontend hears of it, and
\* with no frontend and a disconnect pending it is told at once.
AttachCrawler(c) ==
    /\ sock[c] = "new"
    /\ LET e == Current
           old == e.crawler
           front == e.frontend
       IN /\ entry' = [e EXCEPT !.crawler = c, !.ready = FALSE, !.timer = FALSE]
          /\ sock' = [w \in Sockets |->
                        CASE w = c -> "open"
                          [] w = old /\ Open(old) -> "closing"
                          [] OTHER -> sock[w]]
          /\ sent' = [w \in Sockets |->
                        CASE w = front /\ Open(front) -> "crawler_connected"
                          [] w = c /\ e.flag /\ front = None -> "session.disconnect"
                          [] OTHER -> sent[w]]
    /\ UNCHANGED stale

\* A message may arrive from a socket that has been asked to close.
Talks(w) == sock[w] \in {"open", "closing"}

\* A frontend message for the crawler, other than session.disconnect: forwarded,
\* or answered with "Crawler is not connected yet".
FrontendMessage(f) ==
    /\ Talks(f)
    /\ entry' = Current
    /\ sent' = IF Open(Current.crawler) THEN sent ELSE Told({f}, "not_connected")
    /\ UNCHANGED <<sock, stale>>

\* session.disconnect from a frontend: forwarded to an open crawler, otherwise
\* remembered, and the frontend is closed.
FrontendDisconnect(f) ==
    /\ Talks(f)
    /\ LET e == Current
       IN IF Open(e.crawler)
            THEN /\ entry' = e
                 /\ sent' = Told({e.crawler}, "session.disconnect")
                 /\ UNCHANGED sock
            ELSE /\ entry' = [e EXCEPT !.flag = TRUE]
                 /\ sent' = Told({f}, "disconnect_pending")
                 /\ sock' = [sock EXCEPT ![f] = "closing"]
    /\ UNCHANGED stale

CrawlerReady(c) ==
    /\ Talks(c)
    /\ entry' = [Current EXCEPT !.ready = TRUE]
    /\ UNCHANGED <<sock, stale, sent>>

\* Anything else a crawler says is forwarded, or dropped.
CrawlerMessage(c) ==
    /\ Talks(c)
    /\ entry' = Current
    /\ UNCHANGED <<sock, stale, sent>>

\* The peer begins to close: no longer OPEN, the close event still to come.
PeerCloses(w) ==
    /\ sock[w] = "open"
    /\ sock' = [sock EXCEPT ![w] = "closing"]
    /\ UNCHANGED <<entry, stale, sent>>

\* Slip: the close event empties the slot whoever holds it by now.
CloseFrontendAnyone(f) ==
    /\ Talks(f)
    /\ sock' = [sock EXCEPT ![f] = "closed"]
    /\ CleanUp([Current EXCEPT !.frontend = None, !.flag = @ \/ ~Current.ready])
    /\ UNCHANGED sent

\* The close event of a frontend: the crawler in the slot is told to disconnect,
\* whether or not this socket was the one in the slot.
CloseFrontend(f) ==
    /\ Talks(f)
    /\ sock' = [sock EXCEPT ![f] = "closed"]
    /\ LET e == Current
           left == [e EXCEPT !.frontend = IF @ = f THEN None ELSE @,
                             !.flag = @ \/ ~e.ready]
       IN /\ sent' = Told({e.crawler}, "session.disconnect")
          /\ CleanUp(left)

\* The close event of a crawler.
CloseCrawler(c) ==
    /\ Talks(c)
    /\ sock' = [sock EXCEPT ![c] = "closed"]
    /\ LET e == Current
           left == [e EXCEPT !.crawler = IF @ = c THEN None ELSE @,
                             !.ready = FALSE, !.flag = FALSE]
       IN /\ sent' = Told({e.frontend}, "crawler_disconnected")
          /\ CleanUp(left)

\* The timer of the entry in the map.
TimerFires ==
    /\ entry # NoEntry /\ entry.timer
    /\ entry' = NoEntry
    /\ UNCHANGED <<sock, stale, sent>>

\* A timer whose entry has gone deletes whatever the id maps to by now; the timer
\* of that entry, if any, becomes stale in turn.
StaleTimerFires ==
    /\ stale > 0
    /\ stale' = IF entry # NoEntry /\ entry.timer THEN stale ELSE stale - 1
    /\ entry' = NoEntry
    /\ UNCHANGED <<sock, sent>>

-----------------------------------------------------------------------------
(* Specification                                                           *)

Init ==
    /\ sock = [w \in Sockets |-> "new"]
    /\ entry = NoEntry
    /\ stale = 0
    /\ sent = [w \in Sockets |-> "nothing"]

Frontend(f) ==
    \/ AttachFrontend(f) \/ FrontendMessage(f) \/ FrontendDisconnect(f)
    \/ PeerCloses(f) \/ CloseFrontend(f)

Crawler(c) ==
    \/ AttachCrawler(c) \/ CrawlerReady(c) \/ CrawlerMessage(c)
    \/ PeerCloses(c) \/ CloseCrawler(c)

Next ==
    \/ \E f \in Frontends : Frontend(f)
    \/ \E c \in Crawlers : Crawler(c)
    \/ TimerFires
    \/ StaleTimerFires

Spec == Init /\ [][Next]_vars

\* Timers fire, and a socket that has been asked to close gets its close event.
Fairness ==
    /\ WF_vars(TimerFires)
    /\ WF_vars(StaleTimerFires)
    /\ \A f \in Frontends : WF_vars(sock[f] = "closing" /\ CloseFrontend(f))
    /\ \A c \in Crawlers : WF_vars(sock[c] = "closing" /\ CloseCrawler(c))

FairSpec == Spec /\ Fairness

-----------------------------------------------------------------------------
(* Properties                                                              *)

Slots(e) == {e.frontend, e.crawler} \ {None}

\* A frontend that left before the crawler was ready is not forgotten: while the
\* flag stands and no frontend holds the slot, the crawler that is connected has
\* been told to disconnect - also when it attached before the close event of a
\* frontend that had asked to leave, or replaced a crawler told earlier.
PendingDisconnectTold ==
    entry # NoEntry /\ entry.flag /\ entry.frontend = None /\ Open(entry.crawler)
        => sent[entry.crawler] = "session.disconnect"

\* A timer is armed only while both slots are empty and a disconnect is to be
\* remembered: whoever attaches in time stops it, so the timer of the entry that is
\* in the map never takes that entry from under a socket.
TimerOfEmpty ==
    entry # NoEntry /\ entry.timer =>
        entry.flag /\ entry.frontend = None /\ entry.crawler = None

\* As long as one crawler at most has connected, every open socket is the one in
\* its slot, so the broker can reach it: neither a late close of a replaced
\* frontend nor a timer takes an entry from under a live socket.
OpenIsReachable ==
    (\A c, d \in Crawlers : sock[c] # "new" /\ sock[d] # "new" => c = d) =>
        \A w \in Sockets : sock[w] = "open" => entry # NoEntry /\ w \in Slots(entry)

\* The map is cleaned up: after every socket closed, either a new one connects or
\* the entry goes.
EntryGoes ==
    (\A w \in Sockets : sock[w] = "closed") ~> (entry = NoEntry)
=============================================================================
