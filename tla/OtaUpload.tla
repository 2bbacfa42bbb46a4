------------------------------ MODULE OtaUpload ------------------------------
(***************************************************************************)
(* The firmware upload (components/web/web_server.cpp, h_ota_post): a      *)
(* stream of bytes that the socket cuts anywhere, from which the MIME      *)
(* envelope is taken off while the rest goes to the flash.                 *)
(*                                                                         *)
(* A byte is a model value; what ends the part header (CRLF CRLF in the    *)
(* code) is Blank and what closes the body ("\r\n--" and the boundary) is  *)
(* Marker, both short.  OtaUpdate has what comes before and after.         *)
(***************************************************************************)
EXTENDS Naturals, Sequences, SequencesExt

CONSTANTS
    Bytes,
    Bodies,         \* requests: [multipart, head, image, bytes], see Forms
    Blank, Marker,
    BufMax,         \* sizeof(buf)
    PreMax,         \* sizeof(pre)
    SplitHeader     \* a part header may come in two reads with the second one
                    \* longer than what is left of pre

ASSUME UploadConstants ==
    /\ \A b \in Bodies : b.multipart \in BOOLEAN /\ b.bytes \in Seq(Bytes)
    /\ Blank \in Seq(Bytes) \ {<< >>} /\ Marker \in Seq(Bytes) \ {<< >>}
    /\ BufMax \in Nat \ {0} /\ PreMax \in Nat \ {0} /\ SplitHeader \in BOOLEAN

Least(S) == CHOOSE i \in S : \A j \in S : i <= j
Smaller(m, n) == IF m <= n THEN m ELSE n
Suffix(s, n) == SubSeq(s, n + 1, Len(s))
\* How many bytes of s come before p, for every place where p begins.
Places(s, p) ==
    {i \in 0..(Len(s) - Len(p)) : SubSeq(s, i + 1, i + Len(p)) = p}

\* What the image of a request is, by the layout of a form: it goes from the
\* first blank line (a form without one has no image) to the first marker, or
\* to the end of what is not closed.
Payload(b) == Suffix(b.bytes, Len(b.head))

ASSUME Forms ==
    \A b \in Bodies :
       LET begins == Places(b.bytes, Blank)
           ends   == Places(Payload(b), Marker)
       IN  IF b.multipart
           THEN /\ Len(b.head) = IF begins = {} THEN Len(b.bytes)
                                ELSE Least(begins) + Len(Blank)
                /\ b.image = IF ends = {} THEN Payload(b)
                             ELSE SubSeq(Payload(b), 1, Least(ends))
           ELSE Len(b.head) = 0 /\ b.image = b.bytes

VARIABLES
    body,       \* the request
    pos,        \* bytes received: content_len - remaining
    pre,        \* the multipart preamble
    inBody,     \* in_body
    carry,      \* carry[0..carry_len)
    written,    \* what esp_ota_write() was given
    ok, done,
    outcome     \* "none", "flash failed", or "flashed": on to esp_ota_end()

bodyVars == <<body, pos, pre, inBody, carry, written, ok, done, outcome>>

BodyInit ==
    /\ body \in Bodies
    /\ pos = 0 /\ pre = << >> /\ inBody = ~body.multipart
    /\ carry = << >> /\ written = << >>
    /\ ok = TRUE /\ done = FALSE /\ outcome = "none"

\* esp_ota_write(), which may fail.
Flash(bytes) ==
    \/ written' = written \o bytes /\ UNCHANGED ok
    \/ bytes # << >> /\ ok' = FALSE /\ UNCHANGED written

\* A marker that begins with the last byte is missed.
Bug_Keep == IF body.multipart THEN Len(Marker) - 2 ELSE 0

\* What is held back: a marker may have begun in it.
Keep == IF body.multipart THEN Len(Marker) - 1 ELSE 0

\* Phase 2.
Strip(data) ==
    LET s     == carry \o data
        found == IF body.multipart THEN Places(s, Marker) ELSE {}
        keep  == Smaller(Keep, Len(s))
    IN  IF found # {}
        THEN Flash(SubSeq(s, 1, Least(found))) /\ done' = TRUE /\ UNCHANGED carry
        ELSE /\ Flash(SubSeq(s, 1, Len(s) - keep))
             /\ carry' = Suffix(s, Len(s) - keep) /\ UNCHANGED done

\* Phase 1: the preamble, up to the first blank line.
Skip(data) ==
    LET all  == pre \o SubSeq(data, 1, Smaller(PreMax - Len(pre), Len(data)))
        ends == Places(all, Blank)
    IN  /\ pre' = all
        /\ IF ends = {}
           THEN ok' = (Len(all) < PreMax) /\ UNCHANGED <<inBody, carry, written, done>>
           ELSE inBody' = TRUE /\ Strip(Suffix(all, Least(ends) + Len(Blank)))

Reading == outcome = "none" /\ pos < Len(body.bytes) /\ ~done /\ ok

\* One httpd_req_recv().
Receive ==
    /\ Reading
    /\ \E n \in 1..Smaller(BufMax, Len(body.bytes) - pos) :
        LET data == SubSeq(body.bytes, pos + 1, pos + n)
        IN  /\ inBody \/ SplitHeader \/ Len(pre) + n <= PreMax
            /\ pos' = pos + n
            /\ \/ ~inBody /\ Skip(data)
               \/ inBody /\ Strip(data) /\ UNCHANGED <<pre, inBody>>
    /\ UNCHANGED <<body, outcome>>

\* The client goes away.
Broken ==
    /\ Reading /\ ok' = FALSE
    /\ UNCHANGED <<body, pos, pre, inBody, carry, written, done, outcome>>

\* What was held back is forgotten.
Bug_Finish ==
    /\ outcome = "none" /\ ~Reading
    /\ outcome' = IF ok THEN "flashed" ELSE "flash failed"
    /\ UNCHANGED <<body, pos, pre, inBody, carry, written, ok, done>>

\* The tail of a body that was not closed; then the rest is drained, and the
\* update is aborted or ended.
Finish ==
    /\ outcome = "none" /\ ~Reading
    /\ IF ok /\ ~done THEN Flash(carry) ELSE UNCHANGED <<written, ok>>
    /\ outcome' = IF ok' THEN "flashed" ELSE "flash failed"
    /\ UNCHANGED <<body, pos, pre, inBody, carry, done>>

BodyNext == Receive \/ Broken \/ Finish

BodySpec == BodyInit /\ [][BodyNext]_bodyVars

-----------------------------------------------------------------------------
(* Properties *)

\* Nothing of the envelope ever reaches the flash, wherever the socket cuts the
\* header, the image and the closing boundary: what was written is a beginning
\* of the image, and what is held back goes on from there.
OnlyTheImageIsWritten ==
    /\ IsPrefix(written, body.image)
    /\ outcome = "none" /\ ok /\ ~done =>
          /\ Len(carry) <= Keep
          /\ IsPrefix(written \o carry, Payload(body))

\* What goes on to esp_ota_end() is the image, all of it.
FlashedIsTheImage == outcome = "flashed" => written = body.image
=============================================================================
