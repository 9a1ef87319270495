------------------------------- MODULE Sessions -------------------------------
(***************************************************************************)
(* The listener thread and its sessions (switch/listener.cc and            *)
(* include/session.hh): it waits for all sockets with select, accepts      *)
(* clients, polls each session that is ready for one request, and deletes  *)
(* those whose poll fails.  Around it are the descriptor table of the      *)
(* process, whose numbers are used again once they are closed, the clients *)
(* (one QEMU each), and the main thread, whose ~Listener ends it all.      *)
(*                                                                         *)
(* A request is its kind; what io_write and the like do to the device is   *)
(* not a subject here.                                                     *)
(***************************************************************************)
EXTENDS Integers, SequencesExt

CONSTANTS
    Clients,
    Descriptors,    \* numbers in the descriptor table
    MSIX_VECTORS,
    MaxRequests     \* bound on the requests of all clients

\* The listening socket is the first thing opened; 0 is no descriptor.
ListenFd == 1
NoFd     == 0

ASSUME DescriptorAssumption == Descriptors \subseteq Nat \ {NoFd} /\ ListenFd \in Descriptors
ASSUME VectorAssumption     == MSIX_VECTORS \in Nat
ASSUME BoundAssumption      == MaxRequests \in Nat

Vectors == 0 .. MSIX_VECTORS - 1

\* What a request may be: plain ones carry no descriptor (PCI_INFO, IOT,
\* RESET); "exit" stands for all a session is ended for, "short" for a message
\* of the wrong length, with a descriptor.
Requests == {"plain", "region", "irq", "exit", "short"}

\* What a descriptor can stand for.
Closed    == <<"closed">>
Listening == <<"listening">>
Stray     == <<"stray">>        \* came with a short message
Socket(c) == <<"socket", c>>
File(c)   == <<"file", c>>      \* guest memory or an event fd, from client c
Objects   == {Closed, Listening, Stray}
                 \cup {Socket(c) : c \in Clients} \cup {File(c) : c \in Clients}

VARIABLES
    table,          \* the descriptor table
    sessions,       \* Listener::_sessions
    pc,             \* the listener thread
    at,             \* its place in sessions; behind the last one is end()
    ready,          \* the fd_set select has left
    stage,          \* shutdown: running, signalled, or in ~Listener
    \* the clients
    peer,
    backlog,        \* connected and not yet accepted
    messages,       \* client -> requests in its socket
    requests,       \* sent by all clients so far
    \* history
    disturbed       \* has a session closed a descriptor that is not its own?

threadVars == <<table, sessions, pc, at, ready, messages, backlog, disturbed>>
vars == <<table, sessions, pc, at, ready, stage, peer, backlog, messages,
          requests, disturbed>>

Session ==
    [client : Clients, fd : Descriptors, files : Seq(Descriptors),
     irq : [Vectors -> Descriptors \cup {NoFd}],
     announced : BOOLEAN,               \* has an entry in _dma_regions
     mapped : SUBSET Descriptors]       \* history: closed in a REGION request

TypeOK ==
    /\ table \in [Descriptors -> Objects]
    /\ sessions \in Seq(Session)
    /\ pc \in {"select", "accept", "round", "recv", "exited", "aborted"}
    /\ at \in 1 .. Len(sessions) + 1
    /\ ready \subseteq Descriptors
    /\ stage \in {"running", "signalled", "closing"}
    /\ peer \in [Clients -> {"new", "connected", "hungup"}]
    /\ backlog \in Seq(Clients)
    /\ messages \in [Clients -> Seq(Requests)]
    /\ requests \in 0 .. MaxRequests
    /\ disturbed \in BOOLEAN

Init ==
    /\ table = [n \in Descriptors |-> IF n = ListenFd THEN Listening ELSE Closed]
    /\ sessions = <<>>
    /\ pc = "select"
    /\ at = 1
    /\ ready = {}
    /\ stage = "running"
    /\ peer = [c \in Clients |-> "new"]
    /\ backlog = <<>>
    /\ messages = [c \in Clients |-> <<>>]
    /\ requests = 0
    /\ disturbed = FALSE

-----------------------------------------------------------------------------
(* The descriptor table *)

\* The number a new descriptor gets: the lowest free one, if there is one.
NewFd ==
    LET free == {n \in Descriptors : table[n] = Closed}
    IN  IF free = {} THEN NoFd ELSE Min(free)

Open(n, object) == [table EXCEPT ![n] = object]

\* Does recvmsg on descriptor n have anything to say, be it an error?
Returns(n) ==
    \A c \in Clients :
        table[n] = Socket(c) => messages[c] # <<>> \/ peer[c] = "hungup"

-----------------------------------------------------------------------------
(* Listener::thread_fun *)

\* Mutant: nfds is the highest number, and not one more.
WatchedBelowLast ==
    LET all == {ListenFd} \cup {sessions[i].fd : i \in DOMAIN sessions}
    IN  IF all = {ListenFd} THEN all ELSE all \ {Max(all)}

\* What goes into the fd_set.
Watched == {ListenFd} \cup {sessions[i].fd : i \in DOMAIN sessions}

\* What select finds readable; files may be so or not.
Readable ==
    {n \in Watched : CASE table[n] = Listening -> backlog # <<>>
                       [] table[n] \in {Socket(c) : c \in Clients} -> Returns(n)
                       [] OTHER -> TRUE}

Select ==
    /\ pc = "select"
    /\ \A n \in Watched : table[n] # Closed
    /\ \E set \in SUBSET Readable :
            /\ \A n \in Readable \ set : table[n] \in {File(c) : c \in Clients}
            /\ ready' = set
    /\ pc' = "accept"
    /\ UNCHANGED <<table, sessions, at, stage, peer, backlog, messages, requests,
                   disturbed>>

\* select fails: a descriptor is closed, or a signal came.
SelectFails ==
    /\ pc = "select"
    /\ (\E n \in Watched : table[n] = Closed) \/ stage # "running"
    /\ pc' = "exited"
    /\ UNCHANGED <<table, sessions, at, ready, stage, peer, backlog, messages,
                   requests, disturbed>>

NewSession(c, n) ==
    [client |-> c, fd |-> n, files |-> <<>>, irq |-> [v \in Vectors |-> NoFd],
     announced |-> FALSE, mapped |-> {}]

\* Mutant: the result of accept is not looked at.
AcceptUnchecked ==
    /\ pc = "accept"
    /\ IF ListenFd \in ready /\ table[ListenFd] = Listening
         THEN /\ sessions' = Append(sessions, NewSession(Head(backlog), NewFd))
              /\ table' = IF NewFd = NoFd THEN table ELSE Open(NewFd, Socket(Head(backlog)))
              /\ backlog' = IF NewFd = NoFd THEN backlog ELSE Tail(backlog)
         ELSE UNCHANGED <<sessions, table, backlog>>
    /\ pc' = "round"
    /\ UNCHANGED <<at, ready, stage, peer, messages, requests, disturbed>>

\* accept_session; accept fails when there is no free number, or when the
\* listening socket has been closed under it.
Accept ==
    /\ pc = "accept"
    /\ IF ListenFd \in ready /\ table[ListenFd] = Listening /\ NewFd # NoFd
         THEN /\ sessions' = Append(sessions, NewSession(Head(backlog), NewFd))
              /\ table' = Open(NewFd, Socket(Head(backlog)))
              /\ backlog' = Tail(backlog)
         ELSE UNCHANGED <<sessions, table, backlog>>
    /\ pc' = "round"
    /\ UNCHANGED <<at, ready, stage, peer, messages, requests, disturbed>>

\* Go on to the next session that is in the fd_set, or to the next select.
Scan ==
    /\ pc = "round"
    /\ LET next == {i \in at .. Len(sessions) : sessions[i].fd \in ready}
       IN  IF next = {} THEN pc' = "select" /\ at' = 1 /\ ready' = {}
                        ELSE pc' = "recv" /\ at' = Min(next) /\ UNCHANGED ready
    /\ UNCHANGED <<table, sessions, stage, peer, backlog, messages, requests,
                   disturbed>>

-----------------------------------------------------------------------------
(* Session::poll *)

\* Poll returns true: the session, now s, stays.
KeepSession(s, files, left) ==
    /\ sessions' = [sessions EXCEPT ![at] = s]
    /\ table' = files
    /\ messages' = left
    /\ at' = at + 1
    /\ pc' = "round"
    /\ UNCHANGED disturbed

\* Mutant: ~Session closes the socket only.
EndSessionKeepFiles(s, files, left) ==
    /\ table' = [files EXCEPT ![s.fd] = Closed]
    /\ messages' = [c \in Clients |-> IF files[s.fd] = Socket(c) THEN <<>> ELSE left[c]]
    /\ disturbed' = (disturbed \/ files[s.fd] \notin {Closed, Socket(s.client)})
    /\ sessions' = RemoveAt(sessions, at)
    /\ at' = IF at < Len(sessions) THEN at + 1 ELSE 1
    /\ pc' = IF s.announced THEN "round" ELSE "aborted"

\* Poll returns false: the session is erased and destroyed, and with it all its
\* descriptors.  The iterator is the one behind it, and is incremented again;
\* end() incremented is begin() in libstdc++.  remove_dma_memory insists on an
\* entry for the port.
EndSession(s, files, left) ==
    LET numbers == {s.fd} \cup ToSet(s.files)
    IN  /\ table' = [n \in Descriptors |-> IF n \in numbers THEN Closed ELSE files[n]]
        /\ messages' = [c \in Clients |-> IF Socket(c) \in {files[n] : n \in numbers}
                                          THEN <<>> ELSE left[c]]
        /\ disturbed' = (disturbed \/ \E n \in numbers :
                            files[n] \notin {Closed, Socket(s.client), File(s.client)})
        /\ sessions' = RemoveAt(sessions, at)
        /\ at' = IF at < Len(sessions) THEN at + 1 ELSE 1
        /\ pc' = IF s.announced THEN "round" ELSE "aborted"

\* A request of client c came in on session s, and left remains in the sockets.
\* The reply fails if the client is gone.
Reply(s, files, left, c) ==
    IF peer[c] = "hungup" THEN EndSession(s, files, left) ELSE KeepSession(s, files, left)

PlainRequest(s, left, c) == Reply(s, table, left, c)

\* REGION: the descriptor is closed as soon as the memory is mapped, or not.
\* insert_region announces the memory, and is refused if regions overlap.
RegionRequest(s, left, c) ==
    LET owner == [s EXCEPT !.files = Append(@, NewFd), !.mapped = @ \cup {NewFd}]
    IN  \/ Reply([owner EXCEPT !.announced = TRUE], table, left, c)
        \/ EndSession(owner, table, left)

\* Mutant: the number stays in the list.
CloseFdOnly(s, n) == s

\* Session::close_fd, but for the close.
CloseFd(s, n) == [s EXCEPT !.files = RemoveFirst(@, n)]

\* IRQ: get_msix_info takes the descriptor for a vector, refuses it for one that
\* has one, or ignores it.
IrqRequest(s, left, c) ==
    LET files == Open(NewFd, File(s.client))
        owner == [s EXCEPT !.files = Append(@, NewFd)]
    IN  \/ \E v \in Vectors :
               IF s.irq[v] = NoFd
                 THEN Reply([owner EXCEPT !.irq[v] = NewFd], files, left, c)
                 ELSE Reply(CloseFd(owner, NewFd), table, left, c)
        \/ Reply(owner, files, left, c)

\* A short message ends the session before its descriptor is in the list.
ShortMessage(s, left) ==
    EndSession(s, IF NewFd = NoFd THEN table ELSE Open(NewFd, Stray), left)

\* Take the next request of client c, whose socket the session reads.  Without a
\* free number a request comes without its descriptor, and is a violation.
HandleRequest(s, c) ==
    LET request == Head(messages[c])
        left    == [messages EXCEPT ![c] = Tail(@)]
    IN  CASE request = "plain" -> PlainRequest(s, left, c)
          [] request = "region" /\ NewFd # NoFd -> RegionRequest(s, left, c)
          [] request = "irq" /\ NewFd # NoFd -> IrqRequest(s, left, c)
          [] request = "short" -> ShortMessage(s, left)
          [] OTHER -> EndSession(s, table, left)

\* recvmsg returns a request, the end of the connection, or an error: a reset by a
\* client that is gone may come before its last requests.
Poll ==
    /\ pc = "recv"
    /\ LET s == sessions[at]
       IN  /\ Returns(s.fd)
           /\ \/ \E c \in Clients : /\ table[s.fd] = Socket(c)
                                    /\ messages[c] # <<>>
                                    /\ HandleRequest(s, c)
              \/ /\ \A c \in Clients : table[s.fd] = Socket(c) => peer[c] = "hungup"
                 /\ EndSession(s, table, messages)
    /\ UNCHANGED <<ready, stage, peer, backlog, requests>>

-----------------------------------------------------------------------------
(* The main thread *)

\* The model ends with the listener thread, or with the process.
Alive == pc \notin {"exited", "aborted"}

\* SIGINT: the main loop comes to its end.
Signal ==
    /\ Alive
    /\ stage = "running"
    /\ stage' = "signalled"
    /\ UNCHANGED <<threadVars, peer, requests>>

\* ~Listener, up to the join.
CloseListening ==
    /\ Alive
    /\ stage = "signalled"
    /\ stage' = "closing"
    /\ table' = [table EXCEPT ![ListenFd] = Closed]
    /\ UNCHANGED <<sessions, pc, at, ready, messages, backlog, disturbed, peer, requests>>

-----------------------------------------------------------------------------
(* The clients, external to this repository *)

Connect(c) ==
    /\ Alive
    /\ peer[c] = "new"
    /\ stage # "closing"
    /\ peer' = [peer EXCEPT ![c] = "connected"]
    /\ backlog' = Append(backlog, c)
    /\ UNCHANGED <<table, sessions, pc, at, ready, stage, messages, requests, disturbed>>

Send(c) ==
    /\ Alive
    /\ peer[c] = "connected"
    /\ c \in ToSet(backlog) \/ Socket(c) \in {table[n] : n \in Descriptors}
    /\ requests < MaxRequests
    /\ requests' = requests + 1
    /\ \E request \in Requests : messages' = [messages EXCEPT ![c] = Append(@, request)]
    /\ UNCHANGED <<table, sessions, pc, at, ready, stage, peer, backlog, disturbed>>

HangUp(c) ==
    /\ Alive
    /\ peer[c] = "connected"
    /\ peer' = [peer EXCEPT ![c] = "hungup"]
    /\ UNCHANGED <<threadVars, stage, requests>>

-----------------------------------------------------------------------------
ThreadFun == Select \/ SelectFails \/ Accept \/ Scan \/ Poll

Next ==
    \/ ThreadFun
    \/ Signal
    \/ CloseListening
    \/ \E c \in Clients : Connect(c) \/ Send(c) \/ HangUp(c)

\* The listener thread runs whenever it can.
Spec == Init /\ [][Next]_vars /\ WF_vars(ThreadFun)

-----------------------------------------------------------------------------
(* Properties *)

Own(s) == {Socket(s.client), File(s.client)}

\* Sessions that come and go do not touch each other's descriptors, however
\* numbers are used again.  The one hole in it is the REGION request (its number
\* stays in the list after it is closed): as long as no session was disturbed by
\* that, each reads its own client, interrupts go to the descriptors the client
\* gave, and what is in the list is the session's own or was closed for a REGION.
SessionsApart ==
    ~disturbed => \A i \in DOMAIN sessions :
        LET s == sessions[i]
        IN  /\ table[s.fd] = Socket(s.client)
            /\ \A v \in Vectors : s.irq[v] # NoFd => table[s.irq[v]] = File(s.client)
            /\ \A n \in ToSet(s.files) : table[n] \in Own(s) \/ n \in s.mapped

\* No descriptor is forgotten: whatever is open is the listening socket or will
\* be closed with a session, but for what a short message left behind.
NothingForgotten ==
    \A n \in Descriptors :
        \/ table[n] \in {Closed, Listening, Stray}
        \/ \E i \in DOMAIN sessions : n \in {sessions[i].fd} \cup ToSet(sessions[i].files)

\* The thread waits in recvmsg, for a message that is not there.
Blocked == pc = "recv" /\ ~Returns(sessions[at].fd)

\* A request is waiting in the socket of a session.
Waiting(c) ==
    messages[c] # <<>> /\ \E i \in DOMAIN sessions : table[sessions[i].fd] = Socket(c)

\* Every request is taken from the socket in the end, although the thread skips a
\* session after each that it deletes, and whoever comes and goes meanwhile;
\* unless the thread is stopped, or stuck in recvmsg for ever.
RequestsTaken ==
    \A c \in Clients :
        Waiting(c) ~> \/ ~Waiting(c)
                      \/ Blocked
                      \/ pc \in {"exited", "aborted"}

\* session.hh, of Session::poll: "Check for a message. Shouldn't block."
PollDoesNotBlock == ~Blocked

=============================================================================
