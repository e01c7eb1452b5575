----------------------------- MODULE Transport -----------------------------
(***************************************************************************)
(* One connection with its two ends: at each end the callers of Send, the  *)
(* buffered channel, the write pump, the read pump with its unbuffered     *)
(* channel, and Close, behind a sync.Once.  Between them a websocket on a  *)
(* TCP connection that may be cut.  Frames are numbered in the order an    *)
(* end sends them.                                                         *)
(*                                                                         *)
(* websocket.Close of the library sends a close frame, waits a bounded     *)
(* time for the peer's and closes the socket in any case.                  *)
(***************************************************************************)
EXTENDS Integers, Sequences, SequencesExt

CONSTANTS
    SendBuffer,  \* sendBuffer (64)
    SockBuffer,  \* frames a direction of the TCP connection holds
    MaxSend,     \* bound on the Sends of each end
    Oversize,    \* frames Encode refuses
    Foreign      \* frames Decode refuses: of another protocol version

End == {"node", "manager"}
Peer(e) == IF e = "node" THEN "manager" ELSE "node"

Frame == UNION {1..MaxSend[e] : e \in End}
None == 0

ASSUME BufferAssumption ==
    /\ SendBuffer \in Nat \ {0} /\ SockBuffer \in Nat \ {0}
    /\ MaxSend \in [End -> Nat]
    /\ Oversize \subseteq Frame /\ Foreign \subseteq Frame

VARIABLES
    sent,    \* per end, how many Sends it has begun
    sender,  \* the frame of a Send that is past its first look at done
    sendq,   \* sendCh
    whold,   \* the frame in the hands of the write pump
    sock,    \* frames an end has written and the other has not read
    fin,     \* a close frame follows them
    rhold,   \* the frame the read pump offers on recvCh
    done,    \* closed by Close
    ws,      \* the websocket: "open", "closing" (close frame sent), "closed"
    wpump,   \* the pumps: "run", "close" (in Close) or "off"; the read pump
    rpump,   \*   closes recvCh when it goes off
    cut,     \* the TCP connection transports nothing any more
    got      \* history: frames received by an end

vars == <<sent, sender, sendq, whold, sock, fin, rhold, done, ws, wpump, rpump, cut, got>>

Init ==
    /\ sent = [e \in End |-> 0] /\ sender = [e \in End |-> None]
    /\ sendq = [e \in End |-> <<>>] /\ whold = [e \in End |-> None]
    /\ sock = [e \in End |-> <<>>] /\ fin = [e \in End |-> FALSE]
    /\ rhold = [e \in End |-> None]
    /\ done = [e \in End |-> FALSE] /\ ws = [e \in End |-> "open"]
    /\ wpump = [e \in End |-> "run"] /\ rpump = [e \in End |-> "run"]
    /\ cut = FALSE
    /\ got = [e \in End |-> <<>>]

-----------------------------------------------------------------------------
(* Send.                                                                   *)

(* Past the first select; a Send on a connection that is done fails there. *)
SendStart(e) ==
    /\ sender[e] = None /\ sent[e] < MaxSend[e] /\ ~done[e]
    /\ sent' = [sent EXCEPT ![e] = @ + 1]
    /\ sender' = [sender EXCEPT ![e] = sent[e] + 1]
    /\ UNCHANGED <<sendq, whold, sock, fin, rhold, done, ws, wpump, rpump, cut, got>>

(* Mutant of SendEnqueue: a full buffer grows. *)
SendEnqueueAnyway(e) ==
    /\ sender[e] # None
    /\ sendq' = [sendq EXCEPT ![e] = Append(@, sender[e])]
    /\ sender' = [sender EXCEPT ![e] = None]
    /\ UNCHANGED <<sent, whold, sock, fin, rhold, done, ws, wpump, rpump, cut, got>>

(* The second select takes any case that is ready: a frame may be accepted *)
(* although done is closed.                                                *)
SendEnqueue(e) ==
    /\ sender[e] # None /\ Len(sendq[e]) < SendBuffer
    /\ sendq' = [sendq EXCEPT ![e] = Append(@, sender[e])]
    /\ sender' = [sender EXCEPT ![e] = None]
    /\ UNCHANGED <<sent, whold, sock, fin, rhold, done, ws, wpump, rpump, cut, got>>

(* The context of the caller ends, or done is closed. *)
SendFails(e) ==
    /\ sender[e] # None
    /\ sender' = [sender EXCEPT ![e] = None]
    /\ UNCHANGED <<sent, sendq, whold, sock, fin, rhold, done, ws, wpump, rpump, cut, got>>

-----------------------------------------------------------------------------
(* writePump.                                                              *)

WriteTake(e) ==
    /\ wpump[e] = "run" /\ whold[e] = None /\ sendq[e] # <<>>
    /\ whold' = [whold EXCEPT ![e] = Head(sendq[e])]
    /\ sendq' = [sendq EXCEPT ![e] = Tail(@)]
    /\ UNCHANGED <<sent, sender, sock, fin, rhold, done, ws, wpump, rpump, cut, got>>

(* Nobody reads any more what is written. *)
Unheard(e) == cut \/ ws[Peer(e)] = "closed"

(* Mutant of WriteSkip: a frame that cannot be encoded ends the pump. *)
WriteSkipReturns(e) ==
    /\ whold[e] \in Oversize
    /\ whold' = [whold EXCEPT ![e] = None]
    /\ wpump' = [wpump EXCEPT ![e] = "off"]
    /\ UNCHANGED <<sent, sender, sendq, sock, fin, rhold, done, ws, rpump, cut, got>>

WriteSkip(e) ==
    /\ whold[e] \in Oversize
    /\ whold' = [whold EXCEPT ![e] = None]
    /\ UNCHANGED <<sent, sender, sendq, sock, fin, rhold, done, ws, wpump, rpump, cut, got>>

(* A write may succeed although it is not heard.  Once the close frame is  *)
(* sent, it waits for the end of the socket.                               *)
WriteOut(e) ==
    /\ whold[e] \notin Oversize \cup {None} /\ ws[e] = "open"
    /\ \/ ~Unheard(e) /\ Len(sock[e]) < SockBuffer
          /\ sock' = [sock EXCEPT ![e] = Append(@, whold[e])]
       \/ Unheard(e) /\ UNCHANGED sock
    /\ whold' = [whold EXCEPT ![e] = None]
    /\ UNCHANGED <<sent, sender, sendq, fin, rhold, done, ws, wpump, rpump, cut, got>>

(* The pump calls Close. *)
WriteFails(e) ==
    /\ whold[e] \notin Oversize \cup {None} /\ (Unheard(e) \/ ws[e] = "closed")
    /\ whold' = [whold EXCEPT ![e] = None]
    /\ wpump' = [wpump EXCEPT ![e] = "close"]
    /\ done' = [done EXCEPT ![e] = TRUE]
    /\ UNCHANGED <<sent, sender, sendq, sock, fin, rhold, ws, rpump, cut, got>>

(* done is closed, or its Close has returned. *)
WriteStops(e) ==
    /\ \/ wpump[e] = "run" /\ whold[e] = None /\ done[e]
       \/ wpump[e] = "close" /\ ws[e] = "closed"
    /\ wpump' = [wpump EXCEPT ![e] = "off"]
    /\ UNCHANGED <<sent, sender, sendq, whold, sock, fin, rhold, done, ws, rpump, cut, got>>

-----------------------------------------------------------------------------
(* readPump.                                                               *)

(* A frame Decode refuses is dropped. *)
ReadTake(e) ==
    /\ rpump[e] = "run" /\ rhold[e] = None /\ ws[e] # "closed"
    /\ sock[Peer(e)] # <<>>
    /\ LET f == Head(sock[Peer(e)]) IN
       rhold' = [rhold EXCEPT ![e] = IF f \in Foreign THEN None ELSE f]
    /\ sock' = [sock EXCEPT ![Peer(e)] = Tail(@)]
    /\ UNCHANGED <<sent, sender, sendq, whold, fin, done, ws, wpump, rpump, cut, got>>

(* The socket is closed, the peer has sent its close frame or closed its   *)
(* end, or a connection that is cut is given up (TCP keep-alive).          *)
ReadError(e) ==
    \/ ws[e] = "closed"
    \/ sock[Peer(e)] = <<>> /\ (fin[Peer(e)] \/ Unheard(e))

(* Mutant of ReadFails: the pump returns and closes recvCh, nothing else.  *)
ReadFailsSilently(e) ==
    /\ rpump[e] = "run" /\ rhold[e] = None /\ ReadError(e)
    /\ rpump' = [rpump EXCEPT ![e] = "off"]
    /\ UNCHANGED <<sent, sender, sendq, whold, sock, fin, rhold, done, ws, wpump, cut, got>>

ReadFails(e) ==
    /\ rpump[e] = "run" /\ rhold[e] = None /\ ReadError(e)
    /\ rpump' = [rpump EXCEPT ![e] = "close"]
    /\ done' = [done EXCEPT ![e] = TRUE]
    /\ UNCHANGED <<sent, sender, sendq, whold, sock, fin, rhold, ws, wpump, cut, got>>

(* The receiver takes the frame offered on recvCh. *)
Recv(e) ==
    /\ rpump[e] = "run" /\ rhold[e] # None
    /\ got' = [got EXCEPT ![e] = Append(@, rhold[e])]
    /\ rhold' = [rhold EXCEPT ![e] = None]
    /\ UNCHANGED <<sent, sender, sendq, whold, sock, fin, done, ws, wpump, rpump, cut>>

(* Mutant of ReadDrops: the pump drops the frame and goes on. *)
ReadDropsOne(e) ==
    /\ rpump[e] = "run" /\ rhold[e] # None /\ done[e]
    /\ rhold' = [rhold EXCEPT ![e] = None]
    /\ UNCHANGED <<sent, sender, sendq, whold, sock, fin, done, ws, wpump, rpump, cut, got>>

(* Mutant of ReadDrops: the pump waits for a receiver only. *)
ReadNeverDrops(e) == FALSE /\ UNCHANGED vars

(* The frame is offered in vain: done is closed. *)
ReadDrops(e) ==
    /\ rpump[e] = "run" /\ rhold[e] # None /\ done[e]
    /\ rhold' = [rhold EXCEPT ![e] = None]
    /\ rpump' = [rpump EXCEPT ![e] = "off"]
    /\ UNCHANGED <<sent, sender, sendq, whold, sock, fin, done, ws, wpump, cut, got>>

ReadStops(e) ==
    /\ rpump[e] = "close" /\ ws[e] = "closed"
    /\ rpump' = [rpump EXCEPT ![e] = "off"]
    /\ UNCHANGED <<sent, sender, sendq, whold, sock, fin, rhold, done, ws, wpump, cut, got>>

-----------------------------------------------------------------------------
(* Close: the once closes done, then the websocket.  Later callers wait.   *)

Close(e) ==
    /\ ~done[e]
    /\ done' = [done EXCEPT ![e] = TRUE]
    /\ UNCHANGED <<sent, sender, sendq, whold, sock, fin, rhold, ws, wpump, rpump, cut, got>>

(* The close frame is written in time, or not. *)
SendClose(e) ==
    /\ done[e] /\ ws[e] = "open"
    /\ ws' = [ws EXCEPT ![e] = "closing"]
    /\ \/ ~Unheard(e) /\ fin' = [fin EXCEPT ![e] = TRUE]
       \/ UNCHANGED fin
    /\ UNCHANGED <<sent, sender, sendq, whold, sock, rhold, done, wpump, rpump, cut, got>>

(* What the peer wrote and nobody read is gone; it may take with it what   *)
(* the peer has not read (a TCP reset).                                    *)
CloseSocket(e) ==
    /\ ws[e] = "closing"
    /\ ws' = [ws EXCEPT ![e] = "closed"]
    /\ \E rest \in Prefixes(sock[e]) :
          sock' = [sock EXCEPT ![Peer(e)] = <<>>, ![e] = rest]
    /\ fin' = [fin EXCEPT ![Peer(e)] = FALSE]
    /\ UNCHANGED <<sent, sender, sendq, whold, rhold, done, wpump, rpump, cut, got>>

Cut ==
    /\ ~cut
    /\ cut' = TRUE
    /\ \E up \in Prefixes(sock["node"]), down \in Prefixes(sock["manager"]) :
          sock' = [node |-> up, manager |-> down]
    /\ fin' = [e \in End |-> FALSE]
    /\ UNCHANGED <<sent, sender, sendq, whold, rhold, done, ws, wpump, rpump, got>>

-----------------------------------------------------------------------------
Write(e) == WriteTake(e) \/ WriteSkip(e) \/ WriteOut(e) \/ WriteFails(e)
Read(e) == ReadTake(e) \/ ReadFails(e) \/ ReadDrops(e) \/ ReadStops(e)

EndStep(e) ==
    \/ SendStart(e) \/ SendEnqueue(e) \/ SendFails(e)
    \/ Write(e) \/ WriteStops(e)
    \/ Read(e) \/ Recv(e)
    \/ Close(e) \/ SendClose(e) \/ CloseSocket(e)

Next == (\E e \in End : EndStep(e)) \/ Cut

Spec == Init /\ [][Next]_vars

(* The goroutines run, the library's Close ends, and a receiver goes on    *)
(* receiving as long as the connection is not done: the loops of Serve and *)
(* handleConn return on Done.                                              *)
Fairness ==
    \A e \in End :
        /\ WF_vars(SendEnqueue(e)) /\ WF_vars(done[e] /\ SendFails(e))
        /\ WF_vars(Write(e)) /\ WF_vars(WriteStops(e)) /\ WF_vars(Read(e))
        /\ WF_vars(~done[e] /\ Recv(e))
        /\ WF_vars(SendClose(e)) /\ WF_vars(CloseSocket(e))

FairSpec == Spec /\ Fairness

-----------------------------------------------------------------------------
Slot == Frame \cup {None}

(* Every variable holds a value of its type. *)
TypeOK ==
    /\ sendq \in [End -> Seq(Frame)] /\ sock \in [End -> Seq(Frame)]
    /\ got \in [End -> Seq(Frame)]
    /\ \A e \in End : Len(sendq[e]) <= SendBuffer /\ Len(sock[e]) <= SockBuffer
    /\ sent \in [End -> Nat] /\ sender \in [End -> Slot]
    /\ whold \in [End -> Slot] /\ rhold \in [End -> Slot]
    /\ fin \in [End -> BOOLEAN] /\ done \in [End -> BOOLEAN] /\ cut \in BOOLEAN
    /\ ws \in [End -> {"open", "closing", "closed"}]
    /\ wpump \in [End -> {"run", "close", "off"}]
    /\ rpump \in [End -> {"run", "close", "off"}]

(* conn.go: Recv is "closed on disconnect", Done tells the callers of Send *)
(* that a connection is over.  No pump is gone from a connection that      *)
(* still looks alive: without its write pump Send would fill the buffer    *)
(* and block for good, without its read pump the session would go silent.  *)
NoHalfDead == \A e \in End : "off" \in {wpump[e], rpump[e]} => done[e]

(* A closed connection leaves nobody behind: both pumps return and every   *)
(* Send does, whether or not anybody still receives and whatever the peer  *)
(* does.                                                                   *)
Over(e) == wpump[e] = "off" /\ rpump[e] = "off" /\ ws[e] = "closed" /\ sender[e] = None
ClosesClean == \A e \in End : done[e] ~> Over(e)

(* An end that closes, or a connection that is cut, is in the end noticed  *)
(* at the other end.                                                       *)
PeerNotices == \A e \in End : done[e] \/ cut ~> done[Peer(e)]

(* Each direction is a Channel.  In flight is, oldest first, what the read *)
(* pump of the receiver holds, what it has yet to read from the socket,    *)
(* what the write pump of the sender holds, and sendCh: as long as each is *)
(* still passed on.                                                        *)
Readable(e) == rpump[Peer(e)] = "run" /\ ws[Peer(e)] # "closed"
Writable(e) == wpump[e] = "run" /\ ws[e] = "open" /\ ~Unheard(e)

Holding(f) == IF f = None THEN <<>> ELSE <<f>>

Waiting(e) == IF Writable(e) THEN Holding(whold[e]) \o sendq[e] ELSE <<>>
Travelling(e) == IF Readable(e) THEN sock[e] \o Waiting(e) ELSE <<>>
InFlight(e) == Holding(rhold[Peer(e)]) \o Travelling(e)

Intact(e) == Readable(e) /\ Writable(e)

Up == INSTANCE Channel
          WITH Refused <- Oversize \cup Foreign,
               q <- InFlight("node"), got <- got["manager"], broken <- ~Intact("node")
Down == INSTANCE Channel
            WITH Refused <- Oversize \cup Foreign,
                 q <- InFlight("manager"), got <- got["node"], broken <- ~Intact("manager")

(* Each direction of a connection delivers what Send accepted, in order,   *)
(* once and without a gap, until the connection breaks.                    *)
ImplementsChannel == Up!Spec /\ Down!Spec

=============================================================================
