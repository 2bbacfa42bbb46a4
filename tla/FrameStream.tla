----------------------------- MODULE FrameStream -----------------------------
(***************************************************************************)
(* One frame at a time over the link, byte by byte: what the bridge sends, *)
(* what the mower makes of it, and its answer coming back in notifications *)
(* of any size (components/ble/ble_manager.cpp, write_frame to decode_task *)
(* and the NOTIFY_RX branch of gap_event_cb).                              *)
(*                                                                         *)
(* A bit of the answer may be flipped.  MowerRpc has the other half: lost  *)
(* and late notifications, and who is waiting.                             *)
(***************************************************************************)
EXTENDS FrameCodec

CONSTANTS Channels,     \* channel ids
          Tasks,        \* schedule entries
          Results,      \* external: result bytes
          Chunks,       \* external: sizes of a notification
          Guarded       \* bound: the bytes of an answer a bit may flip in

ASSUME StreamConstants ==
    /\ Channels \subseteq Nat \ {0} /\ Results \subseteq Byte
    /\ Chunks \subseteq 1..20 /\ 1 \in Chunks /\ Guarded \subseteq Nat
    /\ Tasks \subseteq [start : Nat, duration : Nat, use_on : [1..7 -> BOOLEAN]]
    /\ \A t \in Tasks :       \* uint32_t; TLC's own numbers end at 2^31
          t.start \div 65536 < 65536 /\ t.duration \div 65536 < 65536

VARIABLES asked,    \* the frame of the bridge, and what it stands for
          answer,   \* external: what the mower says
          wire,     \* external: bytes of the answer on their way
          damaged,  \* external: a bit was flipped
          buf,      \* _rx_buf[0.._rx_len)
          ready     \* _rx_sem

vars == <<asked, answer, wire, damaged, buf, ready>>

Nothing == [kind |-> "nothing"]

Init ==
    /\ asked = Nothing /\ answer = Nothing
    /\ wire = << >> /\ damaged = FALSE /\ buf = << >> /\ ready = FALSE

\* rx_flush() and write_frame(); the answer gets under way.
Send(what, frame, reply, bytes) ==
    /\ wire = << >>
    /\ asked' = [what EXCEPT !.frame = frame] /\ answer' = reply
    /\ wire' = bytes
    /\ buf' = << >> /\ ready' = FALSE /\ damaged' = FALSE

Question(kind, channel, task) ==
    [kind |-> kind, channel |-> channel, task |-> task, frame |-> << >>]
Reply(major, minor, result, payload) ==
    [major |-> major, minor |-> minor, result |-> result, payload |-> payload]
AnswerBytes(channel, r) ==
    Answer(channel, r.major, r.minor, r.result, r.payload)

\* add_task() (4690/7)
AddTask ==
    \E ch \in Channels, t \in Tasks, res \in Results :
        LET r == Reply(4690, 7, res, << >>)
        IN  Send(Question("add", ch, t), Encode(ch, 4690, 7, TaskPayload(t)),
                 r, AnswerBytes(ch, r))

\* External: some models append two bytes to an entry.
Appended == {<< >>, <<1, 3>>}

\* get_task() (4690/5)
GetTask ==
    \E ch \in Channels, t \in Tasks, more \in Appended :
        LET r == Reply(4690, 5, 0, TaskPayload(t) \o more)
        IN  Send(Question("get", ch, t), Encode(ch, 4690, 5, U32(2)),
                 r, AnswerBytes(ch, r))

\* send_query() without a payload, and a byte comes back.
Query ==
    \E ch \in Channels, res \in Results :
        LET r == Reply(4586, 2, res, <<175>>)
        IN  Send(Question("query", ch, Nothing), Encode(ch, 4586, 2, << >>),
                 r, AnswerBytes(ch, r))

\* Phases 1 and 2 of the handshake: the mower sends the frame back.
Link ==
    \E ch \in Channels :
        \E frame \in {ChannelSetup(ch), HandshakeFrame(ch)} :
            Send(Question("link", ch, Nothing), frame, Nothing, Echo(frame))

Bits == {1, 2, 4, 8, 16, 32, 64, 128}

\* External: a bit of byte i of an answer flips on the way.
Damage ==
    /\ buf = << >> /\ asked.kind \in {"add", "get", "query"} /\ ~damaged
    /\ damaged' = TRUE
    /\ \E i \in {j \in DOMAIN wire : j - 1 \in Guarded \/ j = Len(wire)},
          bit \in Bits :
            wire' = [wire EXCEPT ![i] = Xor(@, bit)]
    /\ UNCHANGED <<asked, answer, buf, ready>>

\* NOTIFY_RX
Receive ==
    /\ wire # << >>
    /\ \E n \in Chunks :
        LET k    == IF n < Len(wire) THEN n ELSE Len(wire)
            got  == buf \o SubSeq(wire, 1, k)
            done == IsComplete(got)
        IN  /\ wire' = SubSeq(wire, k + 1, Len(wire))
            /\ buf' = IF done THEN SubSeq(got, 1, Expected(got)) ELSE got
            /\ ready' = (ready \/ done)
    /\ UNCHANGED <<asked, answer, damaged>>

Next == AddTask \/ GetTask \/ Query \/ Link \/ Damage \/ Receive

Spec == Init /\ [][Next]_vars

-----------------------------------------------------------------------------
(* Properties *)

\* The mower, which reads a frame by its own rules, understands what the
\* bridge asks, and an entry of the schedule with it.
RequestIsUnderstood ==
    asked.kind \in {"add", "get", "query"} =>
        /\ Understood(asked.frame)
        /\ LET r == Request(asked.frame)
           IN  /\ <<r.major, r.minor>> = <<answer.major, answer.minor>>
               /\ asked.kind = "add" => DecodeTask(r.payload) = asked.task

\* However an answer or an echo is cut into notifications, the waiting task is
\* woken when its last byte is there: not earlier, so nothing of it is left for
\* the next question, and not never.  The rule tells the two kinds of frame
\* apart by a byte that is part of the channel id in the echo of phase 1: with
\* 175 in it the echo waits for two bytes more than there are.
WokenByTheLastByte ==
    ~damaged /\ asked # Nothing =>
        \/ ready <=> wire = << >>
        \/ asked.kind = "link" /\ asked.channel % 256 = 175 /\ ~ready

\* What is decoded is what the mower said, result and payload, and the entry of
\* the schedule that it has.
AnswerIsRead ==
    ready /\ ~damaged /\ asked.kind # "link" =>
        /\ Decodes(buf) /\ Decoded(buf) = answer
        /\ asked.kind = "get" => /\ TaskDecodes(Decoded(buf).payload)
                                 /\ DecodeTask(Decoded(buf).payload) = asked.task

\* A flipped bit in the header, the kind, either length or the end mark never
\* passes for an answer.  (The ids, the result and the payload have no check:
\* the second CRC is received and not tested.)
DamageIsNoticed == ready /\ damaged => ~Decodes(buf)
=============================================================================
