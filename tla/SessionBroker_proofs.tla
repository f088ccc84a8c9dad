------------------------ MODULE SessionBroker_proofs ------------------------
(***************************************************************************)
(* For any number of sockets: a crawler that attaches after the frontend   *)
(* has left is told so, and no open socket drops out of the sessions map   *)
(* as long as one crawler at most has connected.  The second needs more    *)
(* than it says: an armed timer stands for an entry with both slots empty  *)
(* (TimerOfEmpty, a theorem of its own: TimersWaitEmpty), a timer never    *)
(* outlives its entry, and a crawler keeps its slot to its close event     *)
(* (Held).                                                                 *)
(***************************************************************************)
EXTENDS SessionBroker, TLAPS

OneCrawlerYet == \A c, d \in Crawlers : sock[c] # "new" /\ sock[d] # "new" => c = d

\* Sockets that can still be heard of hold their slots.
Held ==
    /\ stale = 0
    /\ \A c \in Crawlers : Talks(c) => entry # NoEntry /\ entry.crawler = c
    /\ \A f \in Frontends : sock[f] = "open" => entry # NoEntry /\ entry.frontend = f

-----------------------------------------------------------------------------
(* Type correctness                                                        *)

\* Every handler works on an entry, found or made.
LEMMA CurrentEntry ==
  ASSUME TypeOK
  PROVE  /\ Current \in Entry /\ Current # NoEntry
         /\ entry # NoEntry => Current = entry
         /\ entry = NoEntry => Current = EmptyEntry
<1>1. EmptyEntry \in Entry BY DEF EmptyEntry, Entry
<1>2. \A e \in Entry : e # NoEntry BY DEF Entry, NoEntry
<1> QED BY <1>1, <1>2 DEF Current, TypeOK

\* What the messages sent become.
LEMMA ToldType ==
  ASSUME TypeOK, NEW to, NEW message \in Control
  PROVE  Told(to, message) \in [Sockets -> Control]
  BY DEF Told, TypeOK

LEMMA CleanUpType ==
  ASSUME TypeOK, NEW e \in Entry, CleanUp(e)
  PROVE  entry' \in Entry \cup {NoEntry} /\ stale' \in Nat
<1>1. [e EXCEPT !.timer = TRUE] \in Entry BY DEF Entry
<1>2. stale \in Nat /\ stale + 1 \in Nat BY DEF TypeOK
<1>3. stale' \in Nat BY <1>2 DEF CleanUp
<1>4. entry' \in Entry \cup {NoEntry} BY <1>1 DEF CleanUp
<1> QED BY <1>3, <1>4

LEMMA InitType == Init => TypeOK
  BY DEF Init, TypeOK, Control

\* Every event keeps the types.
LEMMA StepType == TypeOK /\ [Next]_vars => TypeOK'
<1> SUFFICES ASSUME TypeOK, [Next]_vars PROVE TypeOK'
  OBVIOUS
<1> USE DEF Sockets
<1>0. Current \in Entry BY CurrentEntry
<1>1. ASSUME NEW f \in Frontends, AttachFrontend(f) PROVE TypeOK'
  <2>1. entry' \in Entry BY <1>0, <1>1 DEF AttachFrontend, Entry
  <2> QED BY <1>1, <2>1 DEF AttachFrontend, TypeOK, Control
<1>2. ASSUME NEW c \in Crawlers, AttachCrawler(c) PROVE TypeOK'
  <2>1. entry' \in Entry BY <1>0, <1>2 DEF AttachCrawler, Entry
  <2> QED BY <1>2, <2>1 DEF AttachCrawler, TypeOK, Control
<1>3. ASSUME NEW f \in Frontends, FrontendMessage(f) PROVE TypeOK'
  <2>1. sent' \in [Sockets -> Control]
    BY <1>3, ToldType DEF FrontendMessage, TypeOK, Control
  <2> QED BY <1>0, <1>3, <2>1 DEF FrontendMessage, TypeOK
<1>4. ASSUME NEW f \in Frontends, FrontendDisconnect(f) PROVE TypeOK'
  <2>1. entry' \in Entry BY <1>0, <1>4 DEF FrontendDisconnect, Entry
  <2>2. sent' \in [Sockets -> Control]
    BY <1>4, ToldType DEF FrontendDisconnect, Control
  <2> QED BY <1>4, <2>1, <2>2 DEF FrontendDisconnect, TypeOK
<1>5. ASSUME NEW c \in Crawlers, CrawlerReady(c) \/ CrawlerMessage(c) PROVE TypeOK'
  <2>1. entry' \in Entry BY <1>0, <1>5 DEF CrawlerReady, CrawlerMessage, Entry
  <2> QED BY <1>5, <2>1 DEF CrawlerReady, CrawlerMessage, TypeOK
<1>6. ASSUME NEW w \in Sockets, PeerCloses(w) PROVE TypeOK'
  BY <1>6 DEF PeerCloses, TypeOK
<1>7. ASSUME NEW f \in Frontends, CloseFrontend(f) PROVE TypeOK'
  <2> DEFINE left == [Current EXCEPT !.frontend = IF @ = f THEN None ELSE @,
                                     !.flag = @ \/ ~Current.ready]
  <2>1. left \in Entry BY <1>0 DEF Entry
  <2>2. CleanUp(left) BY <1>7 DEF CloseFrontend
  <2>3. sent' \in [Sockets -> Control] BY <1>7, ToldType DEF CloseFrontend, Control
  <2> HIDE DEF left
  <2> QED BY <1>7, <2>1, <2>2, <2>3, CleanUpType DEF CloseFrontend, TypeOK
<1>8. ASSUME NEW c \in Crawlers, CloseCrawler(c) PROVE TypeOK'
  <2> DEFINE left == [Current EXCEPT !.crawler = IF @ = c THEN None ELSE @,
                                     !.ready = FALSE, !.flag = FALSE]
  <2>1. left \in Entry BY <1>0 DEF Entry
  <2>2. CleanUp(left) BY <1>8 DEF CloseCrawler
  <2>3. sent' \in [Sockets -> Control] BY <1>8, ToldType DEF CloseCrawler, Control
  <2> HIDE DEF left
  <2> QED BY <1>8, <2>1, <2>2, <2>3, CleanUpType DEF CloseCrawler, TypeOK
<1>9. CASE TimerFires BY <1>9 DEF TimerFires, TypeOK
<1>10. CASE StaleTimerFires BY <1>10 DEF StaleTimerFires, TypeOK
<1>11. CASE UNCHANGED vars BY <1>11 DEF vars, TypeOK
<1> QED
  BY <1>1, <1>2, <1>3, <1>4, <1>5, <1>6, <1>7, <1>8, <1>9, <1>10, <1>11
  DEF Next, Frontend, Crawler

\* Sockets, the entry and the messages are always well typed.
THEOREM TypeCorrect == Spec => []TypeOK
  BY InitType, StepType, PTL DEF Spec

-----------------------------------------------------------------------------
(* A pending disconnect                                                    *)

\* Sockets of the two roles differ, and None is neither.
LEMMA Roles ==
  ASSUME NEW f \in Frontends, NEW c \in Crawlers
  PROVE  f # c /\ f # None /\ c # None /\ f \in Sockets /\ c \in Sockets
  BY SocketsAssumption DEF Sockets

\* The rest of a slot: None, or a socket of the role.
LEMMA SlotTypes ==
  ASSUME NEW e \in Entry
  PROVE  /\ e.frontend \in Frontends \cup {None} /\ e.crawler \in Crawlers \cup {None}
         /\ e.flag \in BOOLEAN /\ e.ready \in BOOLEAN /\ e.timer \in BOOLEAN
  BY DEF Entry

LEMMA StepTold ==
  TypeOK /\ PendingDisconnectTold /\ [Next]_vars => PendingDisconnectTold'
<1> SUFFICES ASSUME TypeOK, PendingDisconnectTold, [Next]_vars,
                    entry' # NoEntry, entry'.flag, entry'.frontend = None, Open(entry.crawler)'
             PROVE  sent'[entry'.crawler] = "session.disconnect"
  BY DEF PendingDisconnectTold
<1>0. /\ Current \in Entry
      /\ Current.flag /\ Current.frontend = None /\ Open(Current.crawler)
           => sent[Current.crawler] = "session.disconnect"
  BY CurrentEntry DEF PendingDisconnectTold, EmptyEntry
<1>1. PICK c0 \in Crawlers : c0 = entry'.crawler
  BY StepType, SlotTypes DEF TypeOK, Open
<1>2. c0 \in Sockets /\ c0 # None /\ sock'[c0] = "open" /\ sock \in [Sockets -> {"new", "open", "closing", "closed"}]
      /\ sent \in [Sockets -> Control]
  BY <1>1, Roles DEF Open, Sockets, TypeOK
\* A step that leaves the crawler's messages and slot alone.
<1>3. ASSUME Current.flag, Current.frontend = None, Current.crawler = c0,
             sock[c0] = "open", sent'[c0] = sent[c0]
      PROVE  sent'[c0] = "session.disconnect"
  BY <1>0, <1>2, <1>3 DEF Open
<1>4. ASSUME NEW f \in Frontends, AttachFrontend(f) PROVE FALSE
  BY <1>0, <1>4 DEF AttachFrontend, Entry
<1>5. ASSUME NEW c \in Crawlers, AttachCrawler(c) PROVE sent'[c0] = "session.disconnect"
  <2>1. /\ entry' = [Current EXCEPT !.crawler = c, !.ready = FALSE, !.timer = FALSE]
        /\ sent'[c] = CASE c = Current.frontend /\ Open(Current.frontend) -> "crawler_connected"
                        [] c = c /\ Current.flag /\ Current.frontend = None -> "session.disconnect"
                        [] OTHER -> sent[c]
    BY <1>5, Roles DEF AttachCrawler, Sockets
  <2>2. c0 = c /\ Current.flag /\ Current.frontend = None
    BY <1>0, <1>1, <2>1 DEF Entry
  <2>3. c # None BY Roles, SocketsAssumption DEF Sockets
  <2> QED BY <2>1, <2>2, <2>3
<1>6. ASSUME NEW f \in Frontends, FrontendMessage(f) PROVE sent'[c0] = "session.disconnect"
  <2>1. sent'[c0] = sent[c0] BY <1>2, <1>6, Roles DEF FrontendMessage, Told
  <2> QED BY <1>1, <1>2, <1>3, <1>6, <2>1 DEF FrontendMessage
<1>7. ASSUME NEW f \in Frontends, FrontendDisconnect(f) PROVE sent'[c0] = "session.disconnect"
  <2>1. entry'.crawler = Current.crawler BY <1>0, <1>7 DEF FrontendDisconnect, Entry
  <2>2. sock[c0] = "open"
    BY <1>2, <1>7, Roles DEF FrontendDisconnect
  <2>3. Open(Current.crawler) BY <1>1, <1>2, <2>1, <2>2 DEF Open
  <2> QED BY <1>1, <1>2, <1>7, <2>1, <2>3 DEF FrontendDisconnect, Told
<1>8. ASSUME NEW c \in Crawlers, CrawlerReady(c) \/ CrawlerMessage(c)
      PROVE  sent'[c0] = "session.disconnect"
  <2>1. /\ entry'.crawler = Current.crawler /\ entry'.flag = Current.flag
        /\ entry'.frontend = Current.frontend
    BY <1>0, <1>8 DEF CrawlerReady, CrawlerMessage, Entry
  <2> QED BY <1>1, <1>2, <1>3, <1>8, <2>1 DEF CrawlerReady, CrawlerMessage
<1>9. ASSUME NEW w \in Sockets, PeerCloses(w) PROVE sent'[c0] = "session.disconnect"
  <2>1. sock[c0] = "open" BY <1>2, <1>9 DEF PeerCloses
  <2> QED BY <1>1, <1>2, <1>3, <1>9, <2>1, CurrentEntry DEF PeerCloses
<1>10. ASSUME NEW f \in Frontends, CloseFrontend(f) PROVE sent'[c0] = "session.disconnect"
  <2> DEFINE left == [Current EXCEPT !.frontend = IF @ = f THEN None ELSE @,
                                     !.flag = @ \/ ~Current.ready]
  <2>1. left \in Entry /\ left.crawler = Current.crawler BY <1>0 DEF Entry
  <2>2. CleanUp(left) BY <1>10 DEF CloseFrontend
  <2> HIDE DEF left
  <2>3. entry'.crawler = left.crawler BY <2>1, <2>2 DEF CleanUp, Entry
  <2>4. sock[c0] = "open" BY <1>2, <1>10 DEF CloseFrontend
  <2>5. Open(Current.crawler) /\ Current.crawler = c0
    BY <1>1, <1>2, <2>1, <2>3, <2>4 DEF Open
  <2> QED BY <1>2, <1>10, <2>5 DEF CloseFrontend, Told
<1>11. ASSUME NEW c \in Crawlers, CloseCrawler(c) PROVE FALSE
  <2> DEFINE left == [Current EXCEPT !.crawler = IF @ = c THEN None ELSE @,
                                     !.ready = FALSE, !.flag = FALSE]
  <2>1. left \in Entry /\ ~ left.flag BY <1>0 DEF Entry
  <2>2. CleanUp(left) BY <1>11 DEF CloseCrawler
  <2> HIDE DEF left
  <2> QED BY <2>1, <2>2 DEF CleanUp
<1>12. CASE TimerFires \/ StaleTimerFires BY <1>12 DEF TimerFires, StaleTimerFires
<1>13. CASE UNCHANGED vars BY <1>1, <1>2, <1>3, <1>13, CurrentEntry DEF vars
<1> QED
  BY <1>1, <1>4, <1>5, <1>6, <1>7, <1>8, <1>9, <1>10, <1>11, <1>12, <1>13
  DEF Next, Frontend, Crawler, Sockets

\* Whatever sockets attach, leave and are replaced: a disconnect that is pending
\* reaches the crawler in the slot.
THEOREM DisconnectIsTold == Spec => []PendingDisconnectTold
<1>1. Init => PendingDisconnectTold BY DEF Init, PendingDisconnectTold
<1> QED BY <1>1, StepTold, TypeCorrect, PTL DEF Spec
-----------------------------------------------------------------------------
(* Open sockets can be reached                                             *)

\* What a close handler's clean-up leaves: the entry, unless its slots are empty
\* and it has nothing to remember.
LEMMA CleanUpEntry ==
  ASSUME NEW e \in Entry, CleanUp(e), e.timer => e.frontend = None /\ e.crawler = None
  PROVE  /\ \/ entry' = NoEntry /\ e.frontend = None /\ e.crawler = None
            \/ /\ entry' # NoEntry
               /\ entry'.frontend = e.frontend /\ entry'.crawler = e.crawler
               /\ entry'.flag = e.flag
               /\ entry'.timer => e.flag /\ e.frontend = None /\ e.crawler = None
         /\ (e.timer => e.flag) => stale' = stale
<1>1. e # NoEntry /\ [e EXCEPT !.timer = TRUE] # NoEntry BY DEF Entry, NoEntry
<1>2. CASE e.frontend # None \/ e.crawler # None BY <1>1, <1>2 DEF CleanUp
<1>3. CASE e.frontend = None /\ e.crawler = None /\ e.flag
  BY <1>1, <1>3 DEF CleanUp, Entry
<1>4. CASE e.frontend = None /\ e.crawler = None /\ ~ e.flag BY <1>4 DEF CleanUp
<1> QED BY <1>2, <1>3, <1>4

LEMMA StepTimer == TypeOK /\ TimerOfEmpty /\ [Next]_vars => TimerOfEmpty'
<1> SUFFICES ASSUME TypeOK, TimerOfEmpty, [Next]_vars PROVE TimerOfEmpty'
  OBVIOUS
<1>0. /\ Current \in Entry
      /\ Current.timer => Current.flag /\ Current.frontend = None /\ Current.crawler = None
  BY CurrentEntry DEF TimerOfEmpty, EmptyEntry
<1>1. ASSUME NEW f \in Frontends, AttachFrontend(f) PROVE TimerOfEmpty'
  BY <1>0, <1>1 DEF AttachFrontend, TimerOfEmpty, Entry
<1>2. ASSUME NEW c \in Crawlers, AttachCrawler(c) PROVE TimerOfEmpty'
  BY <1>0, <1>2 DEF AttachCrawler, TimerOfEmpty, Entry
<1>3. ASSUME NEW f \in Frontends, FrontendMessage(f) PROVE TimerOfEmpty'
  BY <1>0, <1>3 DEF FrontendMessage, TimerOfEmpty
<1>4. ASSUME NEW f \in Frontends, FrontendDisconnect(f) PROVE TimerOfEmpty'
  BY <1>0, <1>4 DEF FrontendDisconnect, TimerOfEmpty, Entry
<1>5. ASSUME NEW c \in Crawlers, CrawlerReady(c) \/ CrawlerMessage(c) PROVE TimerOfEmpty'
  BY <1>0, <1>5 DEF CrawlerReady, CrawlerMessage, TimerOfEmpty, Entry
<1>6. ASSUME NEW w \in Sockets, PeerCloses(w) PROVE TimerOfEmpty'
  BY <1>6 DEF PeerCloses, TimerOfEmpty
<1>7. ASSUME NEW f \in Frontends, CloseFrontend(f) PROVE TimerOfEmpty'
  <2> DEFINE left == [Current EXCEPT !.frontend = IF @ = f THEN None ELSE @,
                                     !.flag = @ \/ ~Current.ready]
  <2>1. left \in Entry /\ (left.timer => left.frontend = None /\ left.crawler = None)
    BY <1>0 DEF Entry
  <2>2. CleanUp(left) BY <1>7 DEF CloseFrontend
  <2> HIDE DEF left
  <2> QED BY <2>1, <2>2, CleanUpEntry DEF TimerOfEmpty
<1>8. ASSUME NEW c \in Crawlers, CloseCrawler(c) PROVE TimerOfEmpty'
  <2> DEFINE left == [Current EXCEPT !.crawler = IF @ = c THEN None ELSE @,
                                     !.ready = FALSE, !.flag = FALSE]
  <2>1. left \in Entry /\ (left.timer => left.frontend = None /\ left.crawler = None)
    BY <1>0 DEF Entry
  <2>2. CleanUp(left) BY <1>8 DEF CloseCrawler
  <2> HIDE DEF left
  <2> QED BY <2>1, <2>2, CleanUpEntry DEF TimerOfEmpty
<1>9. CASE TimerFires \/ StaleTimerFires
  BY <1>9 DEF TimerFires, StaleTimerFires, TimerOfEmpty
<1>10. CASE UNCHANGED vars BY <1>10 DEF vars, TimerOfEmpty
<1> QED
  BY <1>1, <1>2, <1>3, <1>4, <1>5, <1>6, <1>7, <1>8, <1>9, <1>10
  DEF Next, Frontend, Crawler, Sockets

\* An armed timer waits on an empty entry: the one that is in the map never deletes
\* the entry of a socket.
THEOREM TimersWaitEmpty == Spec => []TimerOfEmpty
<1>1. Init => TimerOfEmpty BY DEF Init, TimerOfEmpty
<1> QED BY <1>1, StepTimer, TypeCorrect, PTL DEF Spec

\* Sockets that connected stay so: whoever keeps to one crawler has kept to it.
LEMMA ConnectedStays ==
  ASSUME TypeOK, [Next]_vars, OneCrawlerYet'
  PROVE  OneCrawlerYet
<1>1. \A c \in Crawlers : sock[c] # "new" => sock'[c] # "new"
  <2> TAKE c \in Crawlers
  <2>1. c \in Sockets BY DEF Sockets
  <2> QED
    BY <2>1
    DEF Next, Frontend, Crawler, AttachFrontend, FrontendMessage, FrontendDisconnect,
        PeerCloses, CloseFrontend, AttachCrawler, CrawlerReady, CrawlerMessage,
        CloseCrawler, TimerFires, StaleTimerFires, vars, TypeOK
<1> QED BY <1>1 DEF OneCrawlerYet

LEMMA StepHeld ==
  TypeOK /\ TimerOfEmpty /\ (OneCrawlerYet => Held) /\ [Next]_vars
    => (OneCrawlerYet' => Held')
<1> SUFFICES ASSUME TypeOK, TimerOfEmpty, OneCrawlerYet => Held, [Next]_vars, OneCrawlerYet'
             PROVE  Held'
  OBVIOUS
<1> USE DEF Talks
<1>1. OneCrawlerYet /\ Held BY ConnectedStays
<1>2. /\ Current \in Entry
      /\ Current.timer => Current.flag /\ Current.frontend = None /\ Current.crawler = None
  BY CurrentEntry DEF TimerOfEmpty, EmptyEntry
<1>3. /\ stale = 0
      /\ \A c \in Crawlers : Talks(c) => Current.crawler = c
      /\ \A f \in Frontends : sock[f] = "open" => Current.frontend = f
  BY <1>1, CurrentEntry DEF Held
<1>4. \A e \in Entry : e # NoEntry BY DEF Entry, NoEntry
<1>5. sock \in [Sockets -> {"new", "open", "closing", "closed"}] BY DEF TypeOK
\* A step that keeps the slots and opens no socket.
<1>6. ASSUME entry' \in Entry, stale' = stale,
             entry'.frontend = Current.frontend, entry'.crawler = Current.crawler,
             \A w \in Sockets : /\ sock'[w] = "open" => sock[w] = "open"
                                /\ sock'[w] \in {"open", "closing"} => Talks(w)
      PROVE  Held'
  BY <1>3, <1>4, <1>6, SocketsAssumption DEF Held, Sockets
<1>7. ASSUME NEW f \in Frontends, AttachFrontend(f) PROVE Held'
  <2>1. /\ entry' = [Current EXCEPT !.frontend = f, !.flag = FALSE, !.timer = FALSE]
        /\ stale' = stale
        /\ sock' = [w \in Sockets |->
                      CASE w = f -> "open"
                        [] w = Current.frontend /\ Open(Current.frontend) -> "closing"
                        [] OTHER -> sock[w]]
    BY <1>7 DEF AttachFrontend
  <2>2. entry' \in Entry /\ entry'.frontend = f /\ entry'.crawler = Current.crawler
    BY <1>2, <2>1 DEF Entry
  <2>3. ASSUME NEW x \in Frontends, sock'[x] = "open" PROVE x = f
    <3>1. CASE x # f /\ sock[x] = "open"
      <4>1. x = Current.frontend /\ x # None BY <1>3, <3>1, SocketsAssumption
      <4> QED BY <2>1, <2>3, <3>1, <4>1 DEF Open, Sockets
    <3>2. CASE x # f /\ sock[x] # "open" BY <2>1, <2>3, <3>2 DEF Sockets
    <3> QED BY <3>1, <3>2
  <2>4. ASSUME NEW c \in Crawlers, sock'[c] \in {"open", "closing"} PROVE Talks(c)
    BY <1>2, <2>1, <2>4, SocketsAssumption, Roles DEF Sockets, Open, Entry
  <2> QED BY <1>3, <1>4, <2>1, <2>2, <2>3, <2>4 DEF Held
<1>8. ASSUME NEW c \in Crawlers, AttachCrawler(c) PROVE Held'
  <2>1. /\ entry' = [Current EXCEPT !.crawler = c, !.ready = FALSE, !.timer = FALSE]
        /\ stale' = stale
        /\ sock' = [w \in Sockets |->
                      CASE w = c -> "open"
                        [] w = Current.crawler /\ Open(Current.crawler) -> "closing"
                        [] OTHER -> sock[w]]
    BY <1>8 DEF AttachCrawler
  <2>2. entry' \in Entry /\ entry'.crawler = c /\ entry'.frontend = Current.frontend
    BY <1>2, <2>1 DEF Entry
  <2>3. ASSUME NEW d \in Crawlers, sock'[d] \in {"open", "closing"} PROVE d = c
    BY <2>1, <2>3 DEF OneCrawlerYet, Sockets
  <2>4. ASSUME NEW f \in Frontends, sock'[f] = "open" PROVE sock[f] = "open"
    BY <1>2, <2>1, <2>4, Roles DEF Sockets, Open, Entry
  <2> QED BY <1>3, <1>4, <2>1, <2>2, <2>3, <2>4 DEF Held
<1>9. ASSUME NEW f \in Frontends, FrontendMessage(f) PROVE Held'
  BY <1>2, <1>6, <1>9 DEF FrontendMessage
<1>10. ASSUME NEW f \in Frontends, FrontendDisconnect(f) PROVE Held'
  <2>1. /\ entry' \in Entry /\ entry'.frontend = Current.frontend
        /\ entry'.crawler = Current.crawler /\ stale' = stale
    BY <1>2, <1>10 DEF FrontendDisconnect, Entry
  <2>2. \A w \in Sockets : /\ sock'[w] = "open" => sock[w] = "open"
                           /\ sock'[w] \in {"open", "closing"} => Talks(w)
    BY <1>5, <1>10 DEF FrontendDisconnect
  <2> QED BY <1>6, <2>1, <2>2
<1>11. ASSUME NEW c \in Crawlers, CrawlerReady(c) \/ CrawlerMessage(c) PROVE Held'
  <2>1. /\ entry' \in Entry /\ entry'.frontend = Current.frontend
        /\ entry'.crawler = Current.crawler
    BY <1>2, <1>11 DEF CrawlerReady, CrawlerMessage, Entry
  <2> QED BY <1>6, <1>11, <2>1 DEF CrawlerReady, CrawlerMessage
<1>12. ASSUME NEW w \in Sockets, PeerCloses(w) PROVE Held'
  <2>1. UNCHANGED <<entry, stale>> BY <1>12 DEF PeerCloses
  <2>2. \A x \in Sockets : /\ sock'[x] = "open" => sock[x] = "open"
                           /\ sock'[x] \in {"open", "closing"} => Talks(x)
    BY <1>5, <1>12 DEF PeerCloses
  <2> QED BY <1>1, <2>1, <2>2 DEF Held, Sockets
<1>13. ASSUME NEW f \in Frontends, CloseFrontend(f) PROVE Held'
  <2> DEFINE left == [Current EXCEPT !.frontend = IF @ = f THEN None ELSE @,
                                     !.flag = @ \/ ~Current.ready]
  <2>1. /\ left \in Entry /\ left.crawler = Current.crawler
        /\ left.frontend = IF Current.frontend = f THEN None ELSE Current.frontend
        /\ left.timer => left.frontend = None /\ left.crawler = None /\ left.flag
    BY <1>2 DEF Entry
  <2>2. CleanUp(left) /\ sock' = [sock EXCEPT ![f] = "closed"]
    BY <1>13 DEF CloseFrontend
  <2> HIDE DEF left
  <2>3. stale' = stale BY <2>1, <2>2, CleanUpEntry
  <2>4. ASSUME NEW c \in Crawlers, sock'[c] \in {"open", "closing"}
        PROVE  entry' # NoEntry /\ entry'.crawler = c
    <3>1. Talks(c) BY <1>5, <2>2, <2>4, Roles
    <3>2. left.crawler = c /\ c # None BY <1>3, <2>1, <3>1, Roles
    <3> QED BY <2>1, <2>2, <3>2, CleanUpEntry
  <2>5. ASSUME NEW x \in Frontends, sock'[x] = "open"
        PROVE  entry' # NoEntry /\ entry'.frontend = x
    <3>1. x # f /\ sock[x] = "open" BY <1>5, <2>2, <2>5 DEF Sockets
    <3>2. left.frontend = x /\ x # None
      BY <1>3, <2>1, <3>1, SocketsAssumption
    <3> QED BY <2>1, <2>2, <3>2, CleanUpEntry
  <2> QED BY <1>3, <2>3, <2>4, <2>5 DEF Held
<1>14. ASSUME NEW c \in Crawlers, CloseCrawler(c) PROVE Held'
  <2> DEFINE left == [Current EXCEPT !.crawler = IF @ = c THEN None ELSE @,
                                     !.ready = FALSE, !.flag = FALSE]
  <2>0. Current.crawler = c /\ c # None /\ Talks(c) BY <1>3, <1>14, SocketsAssumption DEF CloseCrawler
  <2>1. /\ left \in Entry /\ left.frontend = Current.frontend
        /\ ~ left.timer
    BY <1>2, <2>0 DEF Entry
  <2>2. CleanUp(left) /\ sock' = [sock EXCEPT ![c] = "closed"]
    BY <1>14 DEF CloseCrawler
  <2> HIDE DEF left
  <2>3. stale' = stale BY <2>1, <2>2, CleanUpEntry
  <2>4. \A d \in Crawlers : sock'[d] \notin {"open", "closing"}
    BY <1>3, <1>5, <2>0, <2>2 DEF Sockets
  <2>5. ASSUME NEW x \in Frontends, sock'[x] = "open"
        PROVE  entry' # NoEntry /\ entry'.frontend = x
    <3>1. sock[x] = "open" BY <1>5, <2>2, <2>5, Roles
    <3>2. left.frontend = x /\ x # None
      BY <1>3, <2>1, <3>1, SocketsAssumption
    <3> QED BY <2>1, <2>2, <3>2, CleanUpEntry
  <2> QED BY <1>3, <2>3, <2>4, <2>5 DEF Held
<1>15. CASE TimerFires
  <2>1. Current.timer /\ entry' = NoEntry /\ UNCHANGED <<sock, stale>>
    BY <1>15, CurrentEntry DEF TimerFires
  <2>2. Current.frontend = None /\ Current.crawler = None BY <1>2, <2>1
  <2>3. /\ \A c \in Crawlers : ~ Talks(c)
        /\ \A f \in Frontends : sock[f] # "open"
    BY <1>3, <2>2, SocketsAssumption
  <2> QED BY <1>3, <2>1, <2>3 DEF Held
<1>16. CASE StaleTimerFires BY <1>3, <1>16 DEF StaleTimerFires
<1>17. CASE UNCHANGED vars BY <1>1, <1>17 DEF vars, Held
<1> QED
  BY <1>7, <1>8, <1>9, <1>10, <1>11, <1>12, <1>13, <1>14, <1>15, <1>16, <1>17
  DEF Next, Frontend, Crawler, Sockets

\* While no second crawler connects, every open socket is in its slot, whatever
\* frontends come, replace each other and go, and whatever timers fire.
THEOREM SocketsAreReachable == Spec => []OpenIsReachable
<1>1. Init => TimerOfEmpty /\ (OneCrawlerYet => Held)
  BY DEF Init, TimerOfEmpty, Held, Talks, Sockets
<1>2. TypeOK /\ (OneCrawlerYet => Held) => OpenIsReachable
  <2> SUFFICES ASSUME TypeOK, OneCrawlerYet, Held, NEW w \in Sockets, sock[w] = "open"
               PROVE  entry # NoEntry /\ w \in Slots(entry)
    BY DEF OpenIsReachable, OneCrawlerYet
  <2> QED BY SocketsAssumption DEF Held, Talks, Slots, Sockets
<1> QED
  BY <1>1, <1>2, InitType, StepType, StepTimer, StepHeld, PTL DEF Spec
=============================================================================
