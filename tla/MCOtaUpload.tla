----------------------------- MODULE MCOtaUpload -----------------------------
EXTENDS OtaUpload

CONSTANTS h, nl, b1, b2, x, y

BlankLine == <<nl, nl>>
Boundary  == <<nl, b1, b2>>

\* Headers of three sizes, one with a line end in it; images with the beginning
\* of a marker in the middle, at the end and twice, and an empty one.
Heads  == {<<h>> \o BlankLine, <<h, nl, h>> \o BlankLine, <<h, h>> \o BlankLine}
Images == {<< >>, <<x, nl, b1, y, x>>, <<x, y, nl, b1>>, <<nl, nl, b1, nl, x, y>>}

Form(head, image, end) ==
    [multipart |-> TRUE, head |-> head, image |-> image,
     bytes |-> head \o image \o end]
AllBytes == {h, nl, b1, b2, x, y}

\* Closed as it should be, not closed, without an end of the header (one of them
\* longer than the preamble buffer), and not wrapped at all.
Requests ==
    {Form(hd, i, Boundary \o <<h, h>>) : hd \in Heads, i \in Images}
    \cup {Form(hd, i, << >>) : hd \in Heads, i \in Images}
    \cup {Form(hd, << >>, << >>) : hd \in {<<h, nl, h>>, <<h, nl, h, nl, b1, b2, h, nl>>}}
    \cup {[Form(<< >>, i, << >>) EXCEPT !.multipart = FALSE] : i \in Images}
=============================================================================
