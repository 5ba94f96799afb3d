------------------------------- MODULE SshMux -------------------------------
(* The SSH connection protocol of lib/ssh: two multiplexers over a         *)
(* transport that loses and reorders nothing (see SshTransport). On each   *)
(* end mux.loop dispatches packets to channels, and user goroutines open,  *)
(* accept, write, read, request and close at any moment. Payload is        *)
(* counted in units; a window counts modulo WindowMod (2^32).              *)
EXTENDS Naturals, Sequences, FiniteSets, SequencesExt

CONSTANTS
    Scenarios,   \* what the users of the two ends may do, see Scenario
    WindowSize,  \* channelWindowSize
    WindowMod,   \* 2^32
    QueueCap     \* capacity of incomingChannels, incomingRequests, msg (16)

VARIABLES
    plan,   \* the scenario
    wire,   \* packets sent by an end and not yet read by the other
    mx,     \* mux
    ch,     \* the channel objects of an end, in the order they were made
    rogue   \* packets of another make the server still has to send

muxVars == <<plan, wire, mx, ch, rogue>>

End == {"client", "server"}
Other(s) == IF s = "client" THEN "server" ELSE "client"

ChannelPackets == {"data", "eof", "close", "confirm", "reject", "adjust", "request", "reply"}
Packets == [type : ChannelPackets \cup {"open", "oddOpen", "global", "globalReply"},
            id : Nat, from : Nat, n : Nat]

(* opens: channels the client opens; data: units an end writes on a        *)
(* channel; asks: requests the client makes on a channel, all with a       *)
(* reply; globals: global requests of the client; closes: an end may close *)
(* channels; hangup: the client may close the connection; rogue: packets   *)
(* that a server of another make sends at some moment.                     *)
Scenario ==
    [opens : Nat, data : [End -> Nat], asks : Nat, globals : Nat,
     closes : SUBSET End, hangup : BOOLEAN, rogue : Seq(Packets)]

ASSUME MuxAssumption ==
    /\ WindowSize \in Nat \ {0} /\ WindowMod \in Nat /\ WindowSize < WindowMod
    /\ QueueCap \in Nat \ {0}
    /\ Scenarios \subseteq Scenario

Msg(type, id, from, n) == [type |-> type, id |-> id, from |-> from, n |-> n]

MuxInit ==
    /\ plan \in Scenarios
    /\ rogue = plan.rogue
    /\ wire = [s \in End |-> <<>>]
    /\ mx = [s \in End |-> [loop |-> "run", err |-> "", open |-> TRUE, panic |-> FALSE,
               chanList |-> <<>>, incoming |-> <<>>, requests |-> <<>>, responses |-> <<>>,
               opened |-> 0, asking |-> FALSE, asked |-> 0]]
    /\ ch = [s \in End |-> <<>>]

-----------------------------------------------------------------------------
(* chanList: the first free slot is used again.                            *)

Slot(list) ==
    LET free == {i \in DOMAIN list : list[i] = 0}
    IN  IF free = {} THEN Len(list) + 1 ELSE CHOOSE i \in free : \A j \in free : i <= j

add(list, o) == IF Slot(list) \in DOMAIN list THEN [list EXCEPT ![Slot(list)] = o]
                                              ELSE Append(list, o)

getChan(list, id) == IF id \in DOMAIN list THEN list[id] ELSE 0

remove(list, id) == IF id \in DOMAIN list THEN [list EXCEPT ![id] = 0] ELSE list

(* newChannel. The fields spent and granted count what was reserved of and *)
(* added to the remote window, sent and read the units of the two streams. *)
newChannel(s, dir) ==
    [dir |-> dir, local |-> Slot(mx[s].chanList), remote |-> 0, decided |-> FALSE,
     state |-> "opening", maxIncoming |-> dir = "out",
     sentEOF |-> FALSE, sentClose |-> FALSE,
     remoteWin |-> 0, winClosed |-> FALSE, granted |-> 0, spent |-> 0,
     myWindow |-> WindowSize, pending |-> 0, eof |-> FALSE,
     msg |-> <<>>, closed |-> FALSE, requests |-> <<>>,
     writer |-> "idle", hold |-> 0, sent |-> 0,
     reader |-> "idle", taken |-> 0, read |-> 0, sawEOF |-> FALSE,
     asking |-> FALSE, asked |-> 0]

Obj(s) == DOMAIN ch[s]
SetMx(s, r) == mx' = [mx EXCEPT ![s] = r]
SetCh(s, o, r) == ch' = [ch EXCEPT ![s][o] = r]

(* The transport's writePacket: nothing leaves a closed connection.        *)
Send(s, m) == wire' = IF mx[s].open THEN [wire EXCEPT ![s] = Append(@, m)] ELSE wire

(* channel.writePacket: after the close packet nothing is sent.            *)
CanSend(c) == ~c.sentClose
ChanSend(s, c, m) == IF CanSend(c) THEN Send(s, m) ELSE UNCHANGED wire

(* window.add refuses what would wrap; window.reserve waits for some room. *)
Wraps(c, n) == (c.remoteWin + n) % WindowMod < n
Added(c, n) == IF n = 0 \/ Wraps(c, n) THEN c
               ELSE [c EXCEPT !.remoteWin = (@ + n) % WindowMod, !.granted = @ + n]
CanReserve(c) == c.remoteWin > 0 \/ c.winClosed

(* channel.close: readers, writers and requesters are let go.              *)
Closed(c) == [c EXCEPT !.eof = TRUE, !.closed = TRUE, !.sentClose = TRUE, !.winClosed = TRUE]

-----------------------------------------------------------------------------
(* mux.loop and onePacket.                                                 *)

Inbox(s) == wire[Other(s)]
Running(s) == mx[s].loop = "run"
Read(s) == wire' = [wire EXCEPT ![Other(s)] = Tail(@)]
At(s, types) == /\ Running(s) /\ mx[s].open /\ Inbox(s) # <<>>
                /\ Head(Inbox(s)).type \in types

LoopFails(s, err) == SetMx(s, [mx[s] EXCEPT !.loop = "drop", !.err = err])

LoopEOF(s) ==
    /\ Running(s)
    /\ ~mx[s].open \/ (~mx[Other(s)].open /\ Inbox(s) = <<>>)
    /\ LoopFails(s, "eof")
    /\ UNCHANGED <<plan, wire, ch, rogue>>

handleChannelOpen(s) ==
    /\ At(s, {"open"}) /\ Len(mx[s].incoming) < QueueCap
    /\ Read(s)
    /\ LET m == Head(Inbox(s))
           o == Len(ch[s]) + 1
           c == [newChannel(s, "in") EXCEPT !.remote = m.from]
       IN  /\ ch' = [ch EXCEPT ![s] = Append(@, Added(c, m.n))]
           /\ SetMx(s, [mx[s] EXCEPT !.chanList = add(@, o), !.incoming = Append(@, o)])
    /\ UNCHANGED <<plan, rogue>>

(* An open with a MaxPacketSize out of range is refused and forgotten.     *)
refuseOpen(s) ==
    /\ At(s, {"oddOpen"})
    /\ wire' = [wire EXCEPT ![Other(s)] = Tail(@),
                            ![s] = Append(@, Msg("reject", Head(Inbox(s)).from, 0, 0))]
    /\ UNCHANGED <<plan, mx, ch, rogue>>

(* A reply nobody asked for waits in globalResponses, and the second one   *)
(* blocks the loop.                                                        *)
handleGlobalPacket(s) ==
    /\ \/ /\ At(s, {"global"}) /\ Len(mx[s].requests) < QueueCap
          /\ SetMx(s, [mx[s] EXCEPT !.requests = Append(@, "global")])
       \/ /\ At(s, {"globalReply"}) /\ Len(mx[s].responses) < 1
          /\ SetMx(s, [mx[s] EXCEPT !.responses = Append(@, "globalReply")])
    /\ Read(s)
    /\ UNCHANGED <<plan, ch, rogue>>

Target(s) == getChan(mx[s].chanList, Head(Inbox(s)).id)

InvalidChannel(s) ==
    /\ At(s, ChannelPackets) /\ Target(s) = 0
    /\ Read(s)
    /\ LoopFails(s, "invalid channel")
    /\ UNCHANGED <<plan, ch, rogue>>

handleData(s) ==
    /\ At(s, {"data"}) /\ Target(s) # 0
    /\ Read(s)
    /\ LET c == ch[s][Target(s)]
           n == Head(Inbox(s)).n
       IN  IF ~c.maxIncoming \/ c.myWindow < n
           THEN LoopFails(s, "data") /\ UNCHANGED ch
           ELSE /\ SetCh(s, Target(s), [c EXCEPT !.myWindow = @ - n, !.pending = @ + n])
                /\ UNCHANGED mx
    /\ UNCHANGED <<plan, rogue>>

handleEOF(s) ==
    /\ At(s, {"eof"}) /\ Target(s) # 0
    /\ Read(s)
    /\ SetCh(s, Target(s), [ch[s][Target(s)] EXCEPT !.eof = TRUE])
    /\ UNCHANGED <<plan, mx, rogue>>

handleCloseByRemoteId(s) ==
    /\ At(s, {"close"}) /\ Target(s) # 0
    /\ LET c == ch[s][Target(s)]
           answer == Msg("close", c.remote, 0, 0)
       IN  /\ wire' = [wire EXCEPT ![Other(s)] = Tail(@),
                                   ![s] = IF CanSend(c) THEN Append(@, answer) ELSE @]
           /\ SetMx(s, [mx[s] EXCEPT !.chanList = remove(@, c.remote), !.panic = @ \/ c.closed])
           /\ SetCh(s, Target(s), Closed(c))
    /\ UNCHANGED <<plan, rogue>>

(* The close is answered, unless ours is out already, and the slot freed.  *)
handleClose(s) ==
    /\ At(s, {"close"}) /\ Target(s) # 0
    /\ LET c == ch[s][Target(s)]
           answer == Msg("close", c.remote, 0, 0)
       IN  /\ wire' = [wire EXCEPT ![Other(s)] = Tail(@),
                                   ![s] = IF CanSend(c) THEN Append(@, answer) ELSE @]
           /\ SetMx(s, [mx[s] EXCEPT !.chanList = remove(@, c.local), !.panic = @ \/ c.closed])
           /\ SetCh(s, Target(s), Closed(c))
    /\ UNCHANGED <<plan, rogue>>

(* The answer to an open: once, and only to the end that opened.           *)
handleOpenResponse(s) ==
    /\ At(s, {"confirm", "reject"}) /\ Target(s) # 0
    /\ LET c == ch[s][Target(s)]
           m == Head(Inbox(s))
           unasked == c.dir = "in" \/ c.decided
       IN  /\ unasked \/ Len(c.msg) < QueueCap
           /\ IF unasked
              THEN LoopFails(s, "response") /\ UNCHANGED ch
              ELSE IF m.type = "reject"
              THEN /\ SetCh(s, Target(s), [c EXCEPT !.decided = TRUE, !.msg = Append(@, m.type)])
                   /\ SetMx(s, [mx[s] EXCEPT !.chanList = remove(@, m.id)])
              ELSE /\ SetCh(s, Target(s), [Added(c, m.n) EXCEPT !.decided = TRUE,
                                             !.remote = m.from, !.msg = Append(@, m.type)])
                   /\ UNCHANGED mx
    /\ Read(s)
    /\ UNCHANGED <<plan, rogue>>

handleAdjust(s) ==
    /\ At(s, {"adjust"}) /\ Target(s) # 0
    /\ Read(s)
    /\ LET c == ch[s][Target(s)]
           n == Head(Inbox(s)).n
       IN  IF n # 0 /\ Wraps(c, n) THEN LoopFails(s, "window") /\ UNCHANGED ch
                          ELSE SetCh(s, Target(s), Added(c, n)) /\ UNCHANGED mx
    /\ UNCHANGED <<plan, rogue>>

handleRequest(s) ==
    /\ \/ /\ At(s, {"request"}) /\ Target(s) # 0
          /\ Len(ch[s][Target(s)].requests) < QueueCap
          /\ SetCh(s, Target(s), [ch[s][Target(s)] EXCEPT !.requests = Append(@, "request")])
       \/ /\ At(s, {"reply"}) /\ Target(s) # 0
          /\ Len(ch[s][Target(s)].msg) < QueueCap
          /\ SetCh(s, Target(s), [ch[s][Target(s)] EXCEPT !.msg = Append(@, "reply")])
    /\ Read(s)
    /\ UNCHANGED <<plan, mx, rogue>>

dropAllSilently(s) ==
    /\ mx[s].loop = "drop"
    /\ SetMx(s, [mx[s] EXCEPT !.chanList = <<>>, !.loop = "close"])
    /\ UNCHANGED <<plan, wire, ch, rogue>>

(* The end of loop: the channels of the list are closed, then the          *)
(* connection, then Wait returns.                                          *)
dropAll(s) ==
    /\ mx[s].loop = "drop"
    /\ LET live == {o \in Obj(s) : \E i \in DOMAIN mx[s].chanList : mx[s].chanList[i] = o}
       IN  /\ ch' = [ch EXCEPT ![s] = [o \in Obj(s) |-> IF o \in live THEN Closed(@[o]) ELSE @[o]]]
           /\ SetMx(s, [mx[s] EXCEPT !.chanList = <<>>, !.loop = "close",
                          !.panic = @ \/ \E o \in live : ch[s][o].closed])
    /\ UNCHANGED <<plan, wire, rogue>>

loopEnds(s) ==
    /\ mx[s].loop = "close"
    /\ SetMx(s, [mx[s] EXCEPT !.loop = "done", !.open = FALSE])
    /\ UNCHANGED <<plan, wire, ch, rogue>>

-----------------------------------------------------------------------------
(* The users.                                                              *)

openChannel(s) ==
    /\ s = "client" /\ mx[s].opened < plan.opens
    /\ LET c == newChannel(s, "out")
       IN  /\ ch' = [ch EXCEPT ![s] = Append(@,
                       IF mx[s].open THEN c ELSE [c EXCEPT !.state = "failed"])]
           /\ SetMx(s, [mx[s] EXCEPT !.opened = @ + 1, !.chanList = add(@, Len(ch[s]) + 1)])
           /\ Send(s, Msg("open", 0, c.local, WindowSize))
    /\ UNCHANGED <<plan, rogue>>

(* <-ch.msg in openChannel.                                                *)
Opened(s, o) ==
    LET c == ch[s][o] IN
    /\ c.dir = "out" /\ c.state = "opening"
    /\ \/ /\ c.msg # <<>>
          /\ SetCh(s, o, [c EXCEPT !.msg = Tail(@),
                            !.state = IF Head(c.msg) = "confirm" THEN "open" ELSE "failed"])
       \/ /\ c.msg = <<>> /\ c.closed
          /\ SetCh(s, o, [c EXCEPT !.state = "failed"])
    /\ UNCHANGED <<plan, wire, mx, rogue>>

Offered(s) == Head(mx[s].incoming)

Accept(s) ==
    /\ mx[s].incoming # <<>>
    /\ LET c == ch[s][Offered(s)]
       IN  /\ ChanSend(s, c, Msg("confirm", c.remote, c.local, c.myWindow))
           /\ SetCh(s, Offered(s), [c EXCEPT !.decided = TRUE, !.maxIncoming = TRUE,
                         !.state = IF CanSend(c) /\ mx[s].open THEN "open" ELSE "failed"])
           /\ SetMx(s, [mx[s] EXCEPT !.incoming = Tail(@)])
    /\ UNCHANGED <<plan, rogue>>

(* The rejected channel keeps its slot in the list.                        *)
Reject(s) ==
    /\ mx[s].incoming # <<>>
    /\ LET c == ch[s][Offered(s)]
       IN  /\ ChanSend(s, c, Msg("reject", c.remote, 0, 0))
           /\ SetCh(s, Offered(s), [c EXCEPT !.decided = TRUE, !.state = "rejected"])
           /\ SetMx(s, [mx[s] EXCEPT !.incoming = Tail(@)])
    /\ UNCHANGED <<plan, rogue>>

(* WriteExtended: part of the window is reserved, then a packet sent.      *)
Reserve(s, o) ==
    LET c == ch[s][o] IN
    /\ c.state = "open" /\ c.writer = "idle" /\ ~c.sentEOF /\ c.sent < plan.data[s]
    /\ CanReserve(c)
    /\ LET want == plan.data[s] - c.sent
           n == IF c.remoteWin < want THEN c.remoteWin ELSE want
       IN  SetCh(s, o, [c EXCEPT !.remoteWin = @ - n, !.spent = @ + n,
                          !.hold = IF c.winClosed THEN 0 ELSE n,
                          !.writer = IF c.winClosed THEN "failed" ELSE "send"])
    /\ UNCHANGED <<plan, wire, mx, rogue>>

WriteExtended(s, o) ==
    LET c == ch[s][o]
        ok == CanSend(c) /\ mx[s].open
    IN
    /\ c.writer = "send"
    /\ ChanSend(s, c, Msg("data", c.remote, 0, c.hold))
    /\ SetCh(s, o, [c EXCEPT !.hold = 0, !.sent = IF ok THEN @ + c.hold ELSE @,
                      !.writer = IF ok THEN "idle" ELSE "failed"])
    /\ UNCHANGED <<plan, mx, rogue>>

(* CloseWrite, by the writing goroutine when it is done.                   *)
CloseWrite(s, o) ==
    LET c == ch[s][o] IN
    /\ c.state = "open" /\ c.writer = "idle" /\ ~c.sentEOF /\ c.sent = plan.data[s]
    /\ ChanSend(s, c, Msg("eof", c.remote, 0, 0))
    /\ SetCh(s, o, [c EXCEPT !.sentEOF = TRUE])
    /\ UNCHANGED <<plan, mx, rogue>>

(* Close, by any goroutine at any moment.                                  *)
CloseChannel(s, o) ==
    LET c == ch[s][o] IN
    /\ c.state = "open" /\ s \in plan.closes /\ ~c.sentClose
    /\ ChanSend(s, c, Msg("close", c.remote, 0, 0))
    /\ SetCh(s, o, [c EXCEPT !.sentClose = TRUE])
    /\ UNCHANGED <<plan, mx, rogue>>

(* ReadExtended: what is pending is taken, then the window is given back,  *)
(* in our books and then to the peer, each in a critical section of its    *)
(* own.                                                                    *)
ReadExtended(s, o) ==
    LET c == ch[s][o] IN
    /\ c.state = "open" /\ c.reader = "idle"
    /\ \/ /\ c.pending > 0
          /\ SetCh(s, o, [c EXCEPT !.pending = 0, !.taken = c.pending, !.read = @ + c.pending,
                            !.reader = "credit"])
       \/ /\ c.pending = 0 /\ c.eof /\ ~c.sawEOF
          /\ SetCh(s, o, [c EXCEPT !.sawEOF = TRUE])
    /\ UNCHANGED <<plan, wire, mx, rogue>>

noCredit(s, o) ==
    LET c == ch[s][o] IN
    /\ c.reader = "credit"
    /\ SetCh(s, o, [c EXCEPT !.reader = "adjust"])
    /\ UNCHANGED <<plan, wire, mx, rogue>>

creditWindow(s, o) ==
    LET c == ch[s][o] IN
    /\ c.reader = "credit"
    /\ SetCh(s, o, [c EXCEPT !.myWindow = @ + c.taken, !.reader = "adjust"])
    /\ UNCHANGED <<plan, wire, mx, rogue>>

adjustWindow(s, o) ==
    LET c == ch[s][o] IN
    /\ c.reader = "adjust"
    /\ ChanSend(s, c, Msg("adjust", c.remote, 0, c.taken))
    /\ SetCh(s, o, [c EXCEPT !.taken = 0, !.reader = "idle"])
    /\ UNCHANGED <<plan, mx, rogue>>

(* channel.SendRequest with a reply; sentRequestMu admits one at a time.   *)
SendRequest(s, o) ==
    LET c == ch[s][o] IN
    /\ s = "client" /\ c.state = "open" /\ ~c.asking /\ c.asked < plan.asks
    /\ ChanSend(s, c, Msg("request", c.remote, 0, 0))
    /\ SetCh(s, o, [c EXCEPT !.asked = @ + 1, !.asking = CanSend(c) /\ mx[s].open])
    /\ UNCHANGED <<plan, mx, rogue>>

Replied(s, o) ==
    LET c == ch[s][o] IN
    /\ c.asking /\ (c.msg # <<>> \/ c.closed)
    /\ SetCh(s, o, [c EXCEPT !.msg = IF @ = <<>> THEN @ ELSE Tail(@), !.asking = FALSE])
    /\ UNCHANGED <<plan, wire, mx, rogue>>

(* The user services the requests and answers each (Request.Reply).        *)
ackRequest(s, o) ==
    LET c == ch[s][o] IN
    /\ c.state = "open" /\ c.requests # <<>>
    /\ ChanSend(s, c, Msg("reply", c.remote, 0, 0))
    /\ SetCh(s, o, [c EXCEPT !.requests = Tail(@)])
    /\ UNCHANGED <<plan, mx, rogue>>

(* mux.SendRequest with a reply; globalSentMu admits one at a time.        *)
GlobalRequest(s) ==
    /\ s = "client" /\ ~mx[s].asking /\ mx[s].asked < plan.globals
    /\ Send(s, Msg("global", 0, 0, 0))
    /\ SetMx(s, [mx[s] EXCEPT !.asked = @ + 1, !.asking = mx[s].open])
    /\ UNCHANGED <<plan, ch, rogue>>

GlobalReplied(s) ==
    /\ mx[s].asking
    /\ \/ /\ mx[s].responses # <<>>
          /\ SetMx(s, [mx[s] EXCEPT !.responses = Tail(@), !.asking = FALSE])
       \/ /\ mx[s].responses = <<>> /\ mx[s].loop \in {"close", "done"}
          /\ SetMx(s, [mx[s] EXCEPT !.asking = FALSE])
    /\ UNCHANGED <<plan, wire, ch, rogue>>

handleGlobalRequests(s) ==
    /\ mx[s].requests # <<>>
    /\ Send(s, Msg("globalReply", 0, 0, 0))
    /\ SetMx(s, [mx[s] EXCEPT !.requests = Tail(@)])
    /\ UNCHANGED <<plan, ch, rogue>>

Hangup(s) ==
    /\ s = "client" /\ plan.hangup /\ mx[s].open
    /\ SetMx(s, [mx[s] EXCEPT !.open = FALSE])
    /\ UNCHANGED <<plan, wire, ch, rogue>>

(* A server of another make sends something a server here would not.       *)
Rogue ==
    /\ rogue # <<>> /\ mx["server"].open
    /\ rogue' = Tail(rogue)
    /\ wire' = [wire EXCEPT !["server"] = Append(@, Head(rogue))]
    /\ UNCHANGED <<plan, mx, ch>>

-----------------------------------------------------------------------------
LoopStep(s) ==
    \/ LoopEOF(s) \/ handleChannelOpen(s) \/ refuseOpen(s) \/ handleGlobalPacket(s)
    \/ InvalidChannel(s)
    \/ handleData(s) \/ handleEOF(s) \/ handleClose(s) \/ handleOpenResponse(s)
    \/ handleAdjust(s) \/ handleRequest(s) \/ dropAll(s) \/ loopEnds(s)

UserStep(s) ==
    \/ openChannel(s) \/ Accept(s) \/ Reject(s)
    \/ GlobalRequest(s) \/ GlobalReplied(s) \/ handleGlobalRequests(s) \/ Hangup(s)
    \/ \E o \in Obj(s) :
         \/ Opened(s, o) \/ Reserve(s, o) \/ WriteExtended(s, o) \/ CloseWrite(s, o)
         \/ CloseChannel(s, o) \/ ReadExtended(s, o) \/ creditWindow(s, o) \/ adjustWindow(s, o)
         \/ SendRequest(s, o) \/ Replied(s, o) \/ ackRequest(s, o)

MuxNext == Rogue \/ \E s \in End : LoopStep(s) \/ UserStep(s)

-----------------------------------------------------------------------------
(* Properties.                                                             *)

Listed(s, o) == \E i \in DOMAIN mx[s].chanList : mx[s].chanList[i] = o

MuxTypeOK ==
    \A s \in End :
      /\ mx[s].loop \in {"run", "drop", "close", "done"}
      /\ Len(mx[s].responses) <= 1
      /\ \A o \in Obj(s) : /\ ch[s][o].state \in {"opening", "open", "failed", "rejected"}
                            /\ ch[s][o].remoteWin \in 0 .. WindowMod - 1
                            /\ ch[s][o].myWindow \in 0 .. WindowSize

Sum(q) == FoldLeft(LAMBDA a, m : a + m.n, 0, q)
InFlight(s, type, id) == Sum(SelectSeq(wire[s], LAMBDA m : m.type = type /\ m.id = id))

(* The two objects of a channel that neither end is closing, on a          *)
(* connection that is still up.                                            *)
Paired(s, o, p) ==
    LET c == ch[s][o]
        d == ch[Other(s)][p]
    IN  /\ mx[s].open /\ mx[Other(s)].open /\ Listed(s, o) /\ Listed(Other(s), p)
        /\ c.remote = d.local /\ d.remote = c.local
        /\ c.state = "open" /\ d.state = "open" /\ ~c.sentClose /\ ~d.sentClose

(* Flow control is exact: what a writer may still send, what it has        *)
(* reserved, what is on its way and the updates owed or under way add up   *)
(* to the window the reader keeps (channel.go:316 and 335, common.go:377). *)
WindowAccounts ==
    plan.rogue = <<>> =>
      \A s \in End : \A o \in Obj(s), p \in Obj(Other(s)) :
        Paired(s, o, p) =>
          LET c == ch[s][o]
              d == ch[Other(s)][p]
              owed == IF d.reader = "adjust" THEN d.taken ELSE 0
          IN  c.remoteWin + c.hold + InFlight(s, "data", d.local)
                + InFlight(Other(s), "adjust", c.local) + owed = d.myWindow

(* Between two ends of this library no packet is ever out of place: a slot *)
(* is reused only when nothing for its old channel can arrive, closes and  *)
(* data may cross, and no loop ends with a protocol error.                 *)
NoStrayPacket ==
    plan.rogue = <<>> => \A s \in End : mx[s].err \in {"", "eof"}

(* Whatever the peer sends, no channel is closed twice (channel.go:373     *)
(* would panic) and the remote window never wraps (common.go:352).         *)
SurvivesPeer ==
    \A s \in End :
      /\ ~mx[s].panic
      /\ \A o \in Obj(s) : ch[s][o].remoteWin + ch[s][o].spent = ch[s][o].granted

(* While the loop runs, a closed channel has left the list, so no packet   *)
(* is sent to its closed queues, and a channel that left it is closed or   *)
(* was refused by the peer: no open channel is cut off (channel.go:402).   *)
ListMatches ==
    \A s \in End : Running(s) => \A o \in Obj(s) :
      LET c == ch[s][o]
          refused == c.dir = "out" /\ c.decided /\ c.remote = 0
      IN  /\ c.closed => ~Listed(s, o)
          /\ ~Listed(s, o) => c.closed \/ refused

(* A reader that meets the end of the stream has read all that was sent on *)
(* it, unless the connection was lost or an end closed the channel: those  *)
(* look the same to it (channel.go:370).                                   *)
StreamIntact ==
    \A s \in End : \A o \in Obj(s), p \in Obj(Other(s)) :
      LET c == ch[s][o]
          d == ch[Other(s)][p]
      IN  /\ plan.rogue = <<>>
          /\ c.sawEOF /\ ~c.closed
          /\ c.remote = d.local /\ d.remote = c.local /\ Listed(s, o) /\ Listed(Other(s), p)
          => c.read = d.sent

Waiting(s, o) ==
    LET c == ch[s][o] IN
    \/ c.state = "opening" /\ c.dir = "out"
    \/ c.asking
    \/ c.state = "open" /\ c.writer = "idle" /\ c.sent < plan.data[s] /\ ~c.sentEOF
    \/ c.writer = "send" \/ c.reader # "idle"
    \/ c.state = "open" /\ ~c.sawEOF

(* A channel opened while the loop was ending, after its list was dropped  *)
(* and before the connection was closed: nobody will ever answer it.       *)
OpenedTooLate(s, o) == ch[s][o].state = "opening" /\ mx[s].loop = "done" /\ ~ch[s][o].closed

(* The end of the loop lets everyone go: openers, requesters, writers that *)
(* wait for the window and readers all return, except for an open that     *)
(* falls between dropAll and Close (mux.go:193 to 201).                    *)
EndLetsGo ==
    <>[] \A s \in End :
           mx[s].loop # "run" =>
             /\ ~mx[s].asking
             /\ \A o \in Obj(s) : Waiting(s, o) => OpenedTooLate(s, o)
=============================================================================
