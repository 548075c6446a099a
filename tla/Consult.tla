-------------------------------- MODULE Consult --------------------------------
(***************************************************************************)
(* The model consultation (src/layers/infer.rs, src/model.rs): a short     *)
(* probe of the server's state, then the chat, each an HTTP exchange with  *)
(* whatever listens on the loopback port, both within one overall timeout. *)
(*                                                                         *)
(* The consultation starts at time 0.  A reply is what the server of one   *)
(* connection sends before it closes: the atoms of its head, Blank the     *)
(* last of them, and of its body.  In a chunked body a chunk is the line   *)
(* of its size, perhaps padded, its data and a Crlf.  Atoms come in any    *)
(* portions and at any time.  A connection stands once the kernel has      *)
(* answered for whoever listens, which may accept it later or never: until *)
(* then the kernel's table may have it as nobody's, which is uid 0.  The   *)
(* process itself takes no time, and no signal interrupts a call.          *)
(***************************************************************************)
EXTENDS Integers, Sequences, FiniteSets

CONSTANTS
  Timeouts,     \* model_timeout_ms
  ProbeShare,   \* the probe gets 1/ProbeShare of the timeout, within
  ProbeMin,     \* these two limits
  ProbeMax,     \* PS_PROBE_MAX_MS
  HeadCap,      \* MAX_HEAD_BYTES
  ReadSize,     \* bytes of one read
  PsCap,        \* PS_RESPONSE_CAP
  ChatCap,      \* CHAT_RESPONSE_CAP
  Slack,        \* what framing may add to twice the cap of a body
  Writes,       \* the writes a request takes at most
  SizeOf,       \* the size in the line that begins a chunk
  Replies,      \* [status, framing, length, head, body, doc, good]
  NoReply       \* no connection

ASSUME ConsultAssumption ==
  /\ Timeouts \subseteq Nat /\ ProbeShare \in Nat \ {0}
  /\ ProbeMin \in Nat /\ ProbeMax \in Nat
  /\ {HeadCap, ReadSize, PsCap, ChatCap, Slack} \subseteq Nat
  /\ SizeOf \in [DOMAIN SizeOf -> Nat]

VARIABLES
  exchange,     \* "probe" or "chat"
  at,           \* the step of the exchange
  clock,        \* Instant::now, since the start
  timeout,      \* the overall deadline
  cutoff,       \* the deadline of this exchange
  owner,        \* whose process listens at the other end of the connection
  accepted,     \* and has accepted it
  vouched,      \* the owner that verify_peer read
  unsent,       \* writes left
  reply,        \* what its server sends
  came,         \* how many atoms of that have been read
  told,         \* <<owner, vouched, content>> of every write that was made
  broken,       \* history variable: a call failed, or an answer was late
  modelState,   \* ModelState
  outcome       \* Consult, or "none"

connection == <<owner, accepted, vouched, unsent, reply, came>>
results == <<modelState, outcome>>
consultVars == <<exchange, at, clock, timeout, cutoff, connection, told, broken, results>>

Owners == {"self", "system", "stranger"}
Blank == "blank line"
Crlf == "crlf"
Pad == "pad"

\* The first blank line ends the head, and without one there is no body; the body
\* may have any atom.
ASSUME ReplyAssumption ==
  \A r \in Replies :
    /\ r.status \in {"2xx", "5xx", "garbled"}
    /\ r.framing \in {"close", "length", "chunked"} /\ r.length \in Nat
    /\ r.head \in Seq({r.head[k] : k \in DOMAIN r.head})
    /\ r.body \in Seq({r.body[k] : k \in DOMAIN r.body})
    /\ r.doc \in Seq({r.doc[k] : k \in DOMAIN r.doc})
    /\ \A k \in DOMAIN r.head : r.head[k] = Blank => k = Len(r.head)
    /\ r.body # <<>> => r.head # <<>> /\ r.head[Len(r.head)] = Blank

ProbeCutoff(t) ==
  LET share == t \div ProbeShare
      window == IF share < ProbeMin THEN ProbeMin ELSE IF share > ProbeMax THEN ProbeMax ELSE share
  IN  IF window < t THEN window ELSE t

ConsultStart(t) ==
  /\ exchange = "probe" /\ at = "connect" /\ clock = 0
  /\ timeout = t /\ cutoff = ProbeCutoff(t)
  /\ owner = "nobody" /\ accepted = FALSE /\ vouched = "nobody" /\ unsent = Writes
  /\ reply = NoReply /\ came = 0
  /\ told = {} /\ broken = FALSE /\ modelState = "unknown" /\ outcome = "none"
ConsultInit == \E t \in Timeouts : ConsultStart(t)

-----------------------------------------------------------------------------
(* Reading a reply                                                           *)

Stream == reply.head \o reply.body
Cap == IF exchange = "probe" THEN PsCap ELSE ChatCap

\* The body and "done", or "more" to ask for another read, or why there is none.
Decoded(kind, body) == [kind |-> kind, body |-> body]
More == Decoded("more", <<>>)
TooLarge == Decoded("too large", <<>>)
Malformed == Decoded("malformed", <<>>)

\* decode_chunked, from the chunk at p on with room for so much of the body.
DecodeChunked(raw, cap) ==
  LET line(p) == {q \in p..Len(raw) : raw[q] # Pad /\ \A k \in p..(q - 1) : raw[k] = Pad}
      from[c \in (1..(Len(raw) + 1)) \X (0..cap)] ==
        LET q == CHOOSE x \in line(c[1]) : TRUE
            size == SizeOf[raw[q]]
            last == q + size
            rest == from[<<last + 2, c[2] - size>>]
        IN  IF line(c[1]) = {} THEN More
            ELSE IF raw[q] \notin DOMAIN SizeOf THEN Malformed
            ELSE IF size = 0 THEN Decoded("done", <<>>)
            ELSE IF size > c[2] THEN TooLarge
            ELSE IF Len(raw) < last + 1 THEN More
            ELSE IF raw[last + 1] # Crlf THEN Malformed
            ELSE IF rest.kind = "done" THEN Decoded("done", SubSeq(raw, q + 1, last) \o rest.body)
            ELSE rest
  IN  from[<<1, cap>>]

EncodedCap == 2 * Cap + Slack

\* A plausible error: what follows the advertised length is kept.
AdvertisedAll(body) == body

Advertised(body) == SubSeq(body, 1, reply.length)

\* What the body so far amounts to, by the framing the head announced.
Body(body) ==
  IF reply.framing = "chunked"
  THEN LET d == DecodeChunked(body, Cap)
       IN  IF d.kind = "more" /\ Len(body) > EncodedCap THEN TooLarge ELSE d
  ELSE IF reply.framing = "length" /\ reply.length > Cap THEN TooLarge
  ELSE IF reply.framing = "length"
  THEN IF Len(body) < reply.length THEN More ELSE Decoded("done", Advertised(body))
  ELSE IF Len(body) > Cap THEN TooLarge ELSE More

\* What the bytes so far amount to.
Progress ==
  IF \A k \in 1..came : Stream[k] # Blank
  THEN IF came > HeadCap THEN TooLarge ELSE More
  ELSE IF reply.status # "2xx" THEN Decoded(reply.status, <<>>)
  ELSE Body(SubSeq(Stream, Len(reply.head) + 1, came))

-----------------------------------------------------------------------------
(* An exchange                                                               *)

\* The exchange is over: the probe is followed by the chat, whatever it found.
Finish(result) ==
  LET understood == result.kind = "done" /\ reply.good /\ result.body = reply.doc
  IN  IF exchange = "probe"
      THEN /\ modelState' \in IF understood THEN {"warm", "cold"} ELSE {"unknown"}
           /\ exchange' = "chat" /\ at' = "connect" /\ cutoff' = timeout
           /\ owner' = "nobody" /\ accepted' = FALSE /\ vouched' = "nobody"
           /\ unsent' = Writes /\ reply' = NoReply /\ came' = 0
           /\ broken' = FALSE
           /\ UNCHANGED <<told, outcome>>
      ELSE /\ outcome' = IF result.kind \in {"unreachable", "untrusted_peer", "timeout"}
                         THEN result.kind
                         ELSE IF result.kind # "done" THEN "error"
                         ELSE IF understood THEN "evidence" ELSE "invalid"
           /\ at' = "over"
           /\ broken' = (broken \/ result.kind = "io")
           /\ UNCHANGED <<exchange, cutoff, connection, told, modelState>>

\* A plausible error: every call may take as long as the exchange.
PatiencePerCall == IF exchange = "probe" THEN ProbeCutoff(timeout) ELSE timeout

\* remaining: what a call's timeout is set to, computed anew for each.
Patience == cutoff - clock
Late == clock >= cutoff
Takes(d) == clock' = clock + d

\* A call that cannot be made any more, or one that waits in vain.
CallTimesOut ==
  /\ at \in {"connect", "write", "read"}
  /\ at = "read" => Progress.kind = "more"
  /\ IF Late THEN UNCHANGED clock ELSE Takes(Patience)
  /\ Finish(Decoded("timeout", <<>>))
  /\ UNCHANGED timeout

CallFails ==
  /\ at \in {"connect", "write", "read"} /\ ~Late
  /\ at = "read" => Progress.kind = "more"
  /\ \E d \in 0..Patience : Takes(d)
  /\ Finish(Decoded(IF at = "connect" THEN "unreachable" ELSE "io", <<>>))
  /\ UNCHANGED timeout

\* connect_timeout: the handshake is the kernel's, on behalf of whoever listens.
Connect ==
  /\ at = "connect" /\ ~Late
  /\ \E d \in 0..Patience : Takes(d)
  /\ owner' \in Owners /\ reply' \in Replies
  /\ at' = "verify"
  /\ UNCHANGED <<exchange, timeout, cutoff, accepted, vouched, unsent, came, told, broken,
                 results>>

\* The listener takes the connection: it is its own from then on.
ServerAccepts ==
  /\ at \in {"verify", "write", "read"} /\ ~accepted
  /\ accepted' = TRUE
  /\ UNCHANGED <<exchange, at, clock, timeout, cutoff, owner, vouched, unsent, reply, came,
                 told, broken, results>>

\* A plausible error: the peer of the probe is believed to be that of the chat.
TrustedOnce(o) == o \in {"self", "system", "unowned"} \/ exchange = "chat"

\* peer_uid_trusted: our own user, or a uid below the human ones, as 0 is.
Trusted(o) == o \in {"self", "system", "unowned"}

\* verify_peer: the row of this connection in the kernel's table; any doubt
\* about it refuses the exchange.
VerifyPeer ==
  /\ at = "verify"
  /\ \E found \in BOOLEAN, row \in {owner} \cup (IF accepted THEN {} ELSE {"unowned"}) :
       IF found /\ Trusted(row)
       THEN /\ vouched' = row /\ at' = "write"
            /\ UNCHANGED <<exchange, cutoff, owner, accepted, unsent, reply, came, told,
                           broken, results>>
       ELSE Finish(Decoded("untrusted_peer", <<>>))
  /\ UNCHANGED <<clock, timeout>>

\* The probe asks for the running models; only the chat carries the command.
Content == IF exchange = "probe" THEN "query" ELSE "command"

Write ==
  /\ at = "write" /\ ~Late
  /\ \E d \in 0..Patience : Takes(d)
  /\ \E n \in 1..unsent :
       /\ unsent' = unsent - n
       /\ at' = IF n = unsent THEN "read" ELSE at
  /\ told' = told \cup {<<owner, vouched, Content>>}
  /\ UNCHANGED <<exchange, timeout, cutoff, owner, accepted, vouched, reply, came, broken,
                 results>>

Read ==
  /\ at = "read" /\ accepted /\ ~Late /\ Progress.kind = "more"
  /\ \E d \in 0..Patience : Takes(d)
  /\ \E n \in 1..ReadSize : came + n <= Len(Stream) /\ came' = came + n
  /\ UNCHANGED <<exchange, at, timeout, cutoff, owner, accepted, vouched, unsent, reply,
                 told, broken, results>>

\* The server has closed: that ends a body without framing, and cuts any other.
ReadEnds ==
  /\ at = "read" /\ accepted /\ ~Late /\ Progress.kind = "more" /\ came = Len(Stream)
  /\ \E d \in 0..Patience : Takes(d)
  /\ Finish(IF reply.framing = "close" /\ Blank \in {Stream[k] : k \in DOMAIN Stream}
            THEN Decoded("done", reply.body) ELSE Malformed)
  /\ UNCHANGED timeout

ReadDecides ==
  /\ at = "read" /\ Progress.kind # "more"
  /\ Finish(Progress)
  /\ UNCHANGED <<clock, timeout>>

ConsultOver == at = "over" /\ UNCHANGED consultVars

ConsultNext ==
  \/ CallTimesOut \/ CallFails \/ Connect \/ ServerAccepts \/ VerifyPeer \/ Write
  \/ Read \/ ReadEnds \/ ReadDecides \/ ConsultOver

ConsultSpec == ConsultInit /\ [][ConsultNext]_consultVars

-----------------------------------------------------------------------------
(* Properties *)

\* The probe's small slice "prevents classification from materially delaying the
\* real chat": when the chat starts, the rest of the timeout is still there
\* (infer.rs:154-156).
ProbeLeavesTime ==
  exchange = "chat" /\ at = "connect" =>
    \/ timeout - clock >= timeout - (timeout \div ProbeShare)
    \/ timeout - clock >= timeout - ProbeMin

\* However a server trickles its bytes, no call of an exchange returns after the
\* exchange's deadline, and none of the consultation after the overall one
\* ("what defeats a trickling server", model.rs:215-217).
EndsByDeadline == clock <= cutoff /\ cutoff <= timeout /\ ProbeLeavesTime

\* Whoever takes the port between the two exchanges, not a byte is written to a
\* process of another user that had accepted its connection when it was checked,
\* and the command only in the chat (model.rs:122-135, infer.rs:350-353).  A
\* connection not yet accepted may be uid 0's in the kernel's table, which
\* peer_uid_trusted takes for a system account: a stranger that accepts it later
\* is told, and "any doubt ... refuses" (model.rs:129-130) is not kept of it.
CommandOnlyToTrusted ==
  \A t \in told :
    /\ t[1] \in {"self", "system"} \/ t[2] = "unowned"
    /\ t[3] = "command" => exchange = "chat"

\* What a server can make the process hold is bounded, whatever it announces
\* (model.rs:8-13, 264-267).
BufferBounded ==
  LET body == IF ChatCap > PsCap THEN 2 * ChatCap + Slack ELSE 2 * PsCap + Slack
  IN  came <= HeadCap + ReadSize + body + ReadSize

\* Whether an answer is evidence depends on what the server sends and not on how
\* its bytes are split into reads: evidence has arrived whole, and a sound
\* answer within the caps is evidence (infer.rs:314-315).  No more is read than
\* that takes.  Of a chunked body the reference is a reader that is fed an atom at
\* a time: its size, so much data, the end of the chunk.
ChunkStart == [mode |-> "size", left |-> 0, got |-> <<>>]
Feed(r, a) ==
  CASE r.mode = "size" /\ a = Pad -> r
    [] r.mode = "size" /\ a # Pad /\ a \in DOMAIN SizeOf ->
         [r EXCEPT !.mode = IF SizeOf[a] = 0 THEN "done" ELSE "data", !.left = SizeOf[a]]
    [] r.mode = "data" ->
         [mode |-> IF r.left = 1 THEN "end" ELSE "data", left |-> r.left - 1, got |-> Append(r.got, a)]
    [] r.mode = "end" /\ a = Crlf -> [r EXCEPT !.mode = "size"]
    [] r.mode = "done" -> r
    [] OTHER -> [r EXCEPT !.mode = "bad"]
FedBy(body) ==
  LET after[k \in 0..Len(body)] == IF k = 0 THEN ChunkStart ELSE Feed(after[k - 1], body[k])
  IN  after
Chunked(body, doc) ==
  FedBy(body)[Len(body)].mode = "done" /\ FedBy(body)[Len(body)].got = doc

Starts(body, s) == Len(s) <= Len(body) /\ SubSeq(body, 1, Len(s)) = s
Whole(r) ==
  /\ r.status = "2xx" /\ r.good /\ r.head # <<>> /\ r.head[Len(r.head)] = Blank
  /\ CASE r.framing = "chunked" -> Chunked(r.body, r.doc)
       [] r.framing = "length" -> r.length = Len(r.doc) /\ Starts(r.body, r.doc)
       [] r.framing = "close" -> r.body = r.doc
WithinCaps(r) ==
  /\ Len(r.head) <= HeadCap /\ Len(r.doc) <= ChatCap
  /\ r.framing = "chunked" => Len(r.body) <= 2 * ChatCap + Slack
EvidenceIffSound ==
  /\ BufferBounded
  /\ at = "over" =>
       /\ outcome = "evidence" => Whole(reply)
       /\ outcome \in {"error", "invalid"} /\ ~broken => ~(Whole(reply) /\ WithinCaps(reply))
=============================================================================
