--------------------------- MODULE MCEchoServers ---------------------------
(* Instances of EchoServers for TLC: what the clients send. *)
EXTENDS EchoServers, TLC

CONSTANTS k1, k2, k3

\* Complete lines of one to three bytes, among them a client that sends a line and,
\* without waiting, one that is too long for rio_readlineb and not finished.
Talk == k1 :> <<<<"x", "nl">>, <<"x", "x", "x", "x">>>>
        @@ k2 :> <<<<"x", "x", "nl">>, <<"nl">>>> @@ k3 :> <<<<"nl">>>>

\* k1 sends two lines at once.
TwoLines == k1 :> <<<<"x", "nl">>, <<"nl">>>> @@ k2 :> <<<<"nl">>>>

\* What k1 sends ends without a newline.
Unfinished == k1 :> <<<<"x">>>> @@ k2 :> <<<<"nl">>>>
=============================================================================
