------------------------------- MODULE Peers -------------------------------
(***************************************************************************)
(* Peer management of src/src/io.c: the passive-peer table, the list of    *)
(* disconnected passive peers, the live-sockets map, the connection        *)
(* sockets and their ipset routes, driven by reset_peers (one step for the *)
(* scan of the peer file, then one step per peer of each of its two diff  *)
(* loops) and by do_accept.  Connection I/O (conn_io) is not part of this  *)
(* module.                                                                 *)
(*                                                                         *)
(* Addresses are IPv4 addresses as integers: memcmp over the 4 network-    *)
(* order bytes orders them as the integers.  The C library's assert is a   *)
(* build choice: AssertsOn is a build without NDEBUG, where a failed       *)
(* assert aborts; with NDEBUG the asserted expression, side effects        *)
(* included, is not evaluated.  A step with undefined behaviour (a list    *)
(* unlink of an element that was never linked) ends the model in halt =   *)
(* "ub"; nothing the program does afterwards is modelled.                  *)
(***************************************************************************)
EXTENDS Integers, Sequences, FiniteSets, SequencesExt

CONSTANTS Addrs,             \* addresses peers may have
          Self,              \* ctx->self_v4
          NoFile,            \* the peer file cannot be opened
          Files,             \* peer-file contents the operator may write
          AssertsOn,         \* built without NDEBUG
          MaxSocks,          \* bound on connection sockets ever created
          MaxAllocFailures,  \* bound on failed captures into the scratch table
          MaxCopyFailures,   \* bound on failed passive-peer copy allocations
          MaxRouteFailures,  \* bound on failing `ipset add` commands
          MaxEpollFailures   \* bound on failing epoll_ctl(ADD) calls

ASSUME Self \in Addrs /\ Files \subseteq (SUBSET Addrs) \cup {NoFile}

VARIABLES file,      \* what the peer file holds now
          passive,   \* keys of ctx->passive_peers
          dlist,     \* ctx->disconnected_passive_peers, head first
          live,      \* ctx->live_sockets: address -> socket id, 0 = none
          socks,     \* connection sockets in ctx->all_sockets
          routes,    \* addresses in the ipset
          nextId,    \* id of the next connection socket
          pc,        \* "idle", or the reset_peers loop being run
          todo,      \* peers the current loop has still to visit
          wanted,    \* updated_passive_peers of the running reset_peers
          fails,     \* injected failures so far: [alloc, copy, route, epoll]
          halt,      \* "running", "abort" (assert) or "ub"
          listed,    \* history: the peers > self the last scanned file lists
          uncopied   \* history: peers of this reload whose copy failed

vars == <<file, passive, dlist, live, socks, routes, nextId, pc, todo,
          wanted, fails, halt, listed, uncopied>>

SockIds == 1 .. MaxSocks

Socks == [id : SockIds, peer : Addrs, outbound : BOOLEAN]

Listed(a) == a \in ToSet(dlist)

(* The process died: a failed assert aborts, undefined behaviour is taken  *)
(* as a crash.                                                             *)
Crash(kind) == halt' = kind

Running == halt = "running"

AbortOrUB == IF AssertsOn THEN "abort" ELSE "ub"

-----------------------------------------------------------------------------
(* reset_peers 542-593: the peers of the file kept for connecting, i.e.    *)
(* those that compare strictly greater than self.  The family test         *)
(* `ctx->using_af | USING_IPV4` is true whatever using_af is.              *)
Candidates(f) == {a \in f : a > Self}

(* capture_passive_peer: the peers whose allocation failed are missing    *)
(* from the scratch table, and encountered_failure is what the capture of  *)
(* the last peer returned, whichever peer the file lists last.             *)
EncounteredFailure(f, failed) ==
    {TRUE : l \in failed} \cup {FALSE : l \in Candidates(f) \ failed}
        \cup (IF Candidates(f) = {} THEN {FALSE} ELSE {})

(* destroy_conn_sock_data, as far as the maps and the list go: the assert  *)
(* around batab_remove(live_sockets), and for an outbound socket the       *)
(* re-link of its passive peer found in table tab (assert(pp != NULL)     *)
(* first).  The crash it causes, or "running".                                                   *)
DestroyOutcome(s, tab) ==
    IF live[s.peer] = 0 /\ AssertsOn THEN "abort"
    ELSE IF s.outbound /\ s.peer \notin tab THEN AbortOrUB
    ELSE "running"

(* With NDEBUG the batab_remove inside the assert is never called.         *)
DestroyedLive(s) ==
    IF AssertsOn THEN [live EXCEPT ![s.peer] = 0] ELSE live

DestroyedList(s) == IF s.outbound THEN <<s.peer>> \o dlist ELSE dlist

-----------------------------------------------------------------------------
Init ==
    /\ file \in Files
    /\ passive = {}
    /\ dlist = <<>>
    /\ live = [a \in Addrs |-> 0]
    /\ socks = {}
    /\ routes = {}
    /\ nextId = 1
    /\ pc = "idle"
    /\ todo = {}
    /\ wanted = {}
    /\ fails = [alloc |-> 0, copy |-> 0, route |-> 0, epoll |-> 0]
    /\ halt = "running"
    /\ listed = {}
    /\ uncopied = {}

(* The operator rewrites the peer file.                                    *)
EditFile(f) ==
    /\ file' = f
    /\ UNCHANGED <<passive, dlist, live, socks, routes, nextId, pc, todo,
                   wanted, fails, halt, listed, uncopied>>

(* reset_peers 518-595: open the file, build updated_passive_peers, and    *)
(* start the diff unless encountered_failure is set.  fopen returning NULL *)
(* is not checked: fgets(NULL) crashes.                                    *)
ReloadScan ==
    /\ Running /\ pc = "idle"
    /\ IF file = NoFile
       THEN /\ Crash("ub")
            /\ UNCHANGED <<passive, dlist, live, socks, routes, nextId, pc,
                           todo, wanted, fails, file, listed, uncopied>>
       ELSE \E failed \in SUBSET Candidates(file) :
              /\ Cardinality(failed) <= MaxAllocFailures - fails.alloc
              /\ \E enc \in EncounteredFailure(file, failed) :
                   /\ wanted' = Candidates(file) \ failed
                   /\ listed' = Candidates(file)
                   /\ uncopied' = {}
                   /\ fails' = [fails EXCEPT !.alloc = @ + Cardinality(failed)]
                   /\ pc' = IF enc THEN "idle" ELSE "discard"
                   /\ todo' = IF enc THEN {} ELSE passive \ wanted'
              /\ UNCHANGED <<file, passive, dlist, live, socks, routes, nextId,
                             halt>>

(* Seeded fault: the discarded peer stays in the passive-peer table.      *)
DiscardedTableKeeps(a) == passive

(* The passive-peer table after the assert(batab_remove(...) == 0) of     *)
(* disconnect_and_discard_passive_peer: with NDEBUG it is not called.      *)
DiscardedTable(a) == IF AssertsOn THEN passive \ {a} ELSE passive

(* disconnect_and_discard_passive_peer 675-682 for an old peer a the file  *)
(* no longer lists: destroy its live socket if the map has one (re-linking *)
(* an outbound peer), unlink the passive peer from the disconnected list,  *)
(* then remove it from the table.  A peer that got connected was never     *)
(* linked: LIST_REMOVE follows its uninitialised links.                    *)
Discard(a) ==
    /\ Running /\ pc = "discard" /\ a \in todo
    /\ todo' = todo \ {a}
    /\ LET s     == CHOOSE x \in socks : x.id = live[a]
           had   == live[a] # 0
           out   == IF had THEN DestroyOutcome(s, passive) ELSE "running"
           dl    == IF had THEN DestroyedList(s) ELSE dlist
       IN  /\ routes' = IF had THEN routes \ {a} ELSE routes
           /\ socks' = IF had THEN socks \ {s} ELSE socks
           /\ live' = IF had THEN DestroyedLive(s) ELSE live
           /\ IF out # "running" \/ a \notin ToSet(dl)
              THEN /\ Crash(IF out # "running" THEN out ELSE "ub")
                   /\ UNCHANGED <<passive, dlist>>
              ELSE /\ dlist' = RemoveFirst(dl, a)
                   /\ passive' = DiscardedTable(a)
                   /\ UNCHANGED halt
    /\ UNCHANGED <<file, nextId, pc, wanted, fails, listed, uncopied>>

(* The first diff loop is over; the second visits the new peers.           *)
DiscardDone ==
    /\ Running /\ pc = "discard" /\ todo = {}
    /\ pc' = "connect"
    /\ todo' = wanted \ passive
    /\ UNCHANGED <<file, passive, dlist, live, socks, routes, nextId, wanted,
                   fails, halt, listed, uncopied>>

(* Seeded fault: the failed connection is not linked for a later retry.   *)
ConnectFailedListForgets(a, dl) == dl

(* connect_and_add_passive_peer 668-672: the connection could not be set   *)
(* up, the copy of the passive peer is linked into the disconnected list.  *)
ConnectFailedList(a, dl) == <<a>> \o dl

(* `ipset add` fails when the address is already in the set, or the        *)
(* command fails for another reason (injected, bounded).                   *)
RouteAddFails(a, injected) == a \in routes \/ injected

(* How setting up connection socket fd for peer a ends, in add_sock        *)
(* 224-270: "refused" covers every failure before the socket is linked     *)
(* (socket, connect, O_NONBLOCK, allocation: the fd is closed and -1       *)
(* returned); "epoll" is a failed EPOLL_CTL_ADD, whose destroy_sock runs   *)
(* on a socket not yet in all_sockets; "route" is a failed `ipset add`,    *)
(* whose destroy_sock drops the route of the address; "ok" links it.       *)
Outcomes == {"refused", "epoll", "route", "ok"}

OutcomeAllowed(o, a) ==
    /\ o # "refused" => nextId <= MaxSocks
    /\ o = "epoll" => fails.epoll < MaxEpollFailures
    /\ o = "route" => RouteAddFails(a, fails.route < MaxRouteFailures)
    /\ o = "ok" => ~RouteAddFails(a, FALSE)

(* The effect of a socket setup outcome o for a socket to peer a, on top   *)
(* of list dl, with tab the passive-peer table at that point.  With        *)
(* "route" the destroy drops the address from the ipset and, unless an     *)
(* assert aborts, re-links an outbound peer; with "epoll" the destroy ends *)
(* in LIST_REMOVE of a socket that was never linked, if not earlier.       *)
SetupSock(o, a, out, dl, tab) ==
    LET s == [id |-> nextId, peer |-> a, outbound |-> out]
    IN  /\ nextId' = IF o = "refused" THEN nextId ELSE nextId + 1
        /\ fails' = [fails EXCEPT
                       !.epoll = IF o = "epoll" THEN @ + 1 ELSE @,
                       !.route = IF o = "route" /\ a \notin routes
                                 THEN @ + 1 ELSE @]
        /\ socks' = IF o = "ok" THEN socks \cup {s} ELSE socks
        /\ routes' = CASE o = "ok"    -> routes \cup {a}
                       [] o = "route" -> routes \ {a}
                       [] OTHER       -> routes
        /\ halt' = CASE o = "epoll" ->
                           IF DestroyOutcome(s, tab) # "running"
                           THEN DestroyOutcome(s, tab) ELSE "ub"
                     [] o = "route" -> DestroyOutcome(s, tab)
                     [] OTHER       -> "running"
        /\ dlist' = CASE o = "refused" /\ out -> ConnectFailedList(a, dl)
                      [] o = "route" /\ out  ->
                            ConnectFailedList(a, DestroyedList(s))
                      [] OTHER               -> dl
        /\ live' = IF o = "route" THEN DestroyedLive(s) ELSE live

(* connect_and_add_passive_peer 652-673 for a new peer a: put a copy of    *)
(* the passive peer into the table, connect (blocking) and add the socket. *)
(* A failed allocation of the copy returns early with nothing changed.     *)
Connect(a) ==
    /\ Running /\ pc = "connect" /\ a \in todo
    /\ todo' = todo \ {a}
    /\ \/ /\ fails.copy < MaxCopyFailures
          /\ fails' = [fails EXCEPT !.copy = @ + 1]
          /\ uncopied' = uncopied \cup {a}
          /\ UNCHANGED <<passive, dlist, live, socks, routes, nextId, halt>>
       \/ /\ passive' = passive \cup {a}
          /\ \E o \in Outcomes :
                /\ OutcomeAllowed(o, a)
                /\ SetupSock(o, a, TRUE, dlist, passive \cup {a})
          /\ UNCHANGED uncopied
    /\ UNCHANGED <<file, pc, wanted, listed>>

(* reset_peers 613-617: the scratch table is destroyed.                    *)
ReloadDone ==
    /\ Running /\ pc = "connect" /\ todo = {}
    /\ pc' = "idle"
    /\ wanted' = {}
    /\ UNCHANGED <<file, passive, dlist, live, socks, routes, nextId, todo,
                   fails, halt, listed, uncopied>>

(* do_accept 692-722: an inbound connection from a is added as a socket.   *)
(* It does not consult the passive peers nor the live map.  A failing      *)
(* accept() other than EAGAIN/EMFILE goes on with fd -1, which add_sock    *)
(* rejects without effect.                                                 *)
Accept(a) ==
    /\ Running /\ pc = "idle"
    /\ \E o \in Outcomes \ {"refused"} :
          OutcomeAllowed(o, a) /\ SetupSock(o, a, FALSE, dlist, passive)
    /\ UNCHANGED <<file, passive, pc, todo, wanted, listed, uncopied>>

Next ==
    \/ \E f \in Files : EditFile(f)
    \/ ReloadScan
    \/ \E a \in Addrs : Discard(a)
    \/ DiscardDone
    \/ \E a \in Addrs : Connect(a)
    \/ ReloadDone
    \/ \E a \in Addrs \ {Self} : Accept(a)

Spec == Init /\ [][Next]_vars

-----------------------------------------------------------------------------
(* After every completed reload the disconnected list holds each passive   *)
(* peer at most once, only passive peers, and exactly those without an     *)
(* outbound connection: connect_and_add_passive_peer links a peer whose    *)
(* connection failed, destroy_conn_sock_data re-links it when its socket   *)
(* goes, disconnect_and_discard unlinks it.  A reload-later retry depends  *)
(* on it, and a double link corrupts the intrusive list.                   *)
DisconnectedListExact ==
    (Running /\ pc = "idle") =>
        /\ IsInjective(dlist)
        /\ ToSet(dlist) \subseteq passive
        /\ \A a \in passive :
              Listed(a) <=> ~\E s \in socks : s.outbound /\ s.peer = a

(* A reload that runs its diff and finishes leaves the passive-peer table  *)
(* equal to the peers greater than self the file lists (spec 4.8): old    *)
(* peers are removed, new ones added, except a new peer whose copy could   *)
(* not be allocated, which connect_and_add_passive_peer leaves for the     *)
(* next reload.  reset_peers skips the diff only when encountered_failure  *)
(* says a peer could not be captured into the scratch table.               *)
ReloadAppliesFile ==
    [][(pc # "idle" /\ pc' = "idle" /\ halt' = "running")
         => passive' = listed \ uncopied]_vars

(* Peer management never runs into undefined behaviour (unlinking a list   *)
(* element that is not linked, fgets on a NULL FILE, a NULL passive peer). *)
NoUndefinedBehaviour == halt # "ub"

(* Every connection socket still has its route in the ipset: a rejected    *)
(* duplicate connection must not take down the route of the one in use.   *)
ConnectionKeepsRoute ==
    Running => \A s \in socks : s.peer \in routes
=============================================================================
