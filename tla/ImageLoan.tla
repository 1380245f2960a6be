------------------------------ MODULE ImageLoan ------------------------------
(***************************************************************************)
(* What the swapchain of a window surface promises about its images, for   *)
(* whatever buffers, queues and threads implement it: an image is lent to  *)
(* the compositor only by the client, comes back to the client only, and   *)
(* is not destroyed or reused meanwhile, as long as the surface is open.   *)
(***************************************************************************)
CONSTANT Image
VARIABLES owner, open

vars == <<owner, open>>

Owners == {"none", "stream", "client", "compositor"}

Init == owner = [i \in Image |-> "none"] /\ open = TRUE

\* The images S change hands together.
Move(S, from, to) ==
    /\ \A i \in S : owner[i] = from
    /\ owner' = [i \in Image |-> IF i \in S THEN to ELSE owner[i]]

Allocate  == \E i \in Image : Move({i}, "none", "stream") /\ open' = open
\* The client hears of an image only after the stream has dropped it.
Learn     == \E i \in Image : Move({i}, "none", "client") /\ open' = open
Acquire   == \E i \in Image : Move({i}, "stream", "client") /\ open' = open
GiveBack  == \E i \in Image : Move({i}, "client", "stream") /\ open' = open
Show      == \E i \in Image : Move({i}, "client", "compositor") /\ open
                              /\ open' = open
TakeBack  == \E i \in Image : Move({i}, "compositor", "client") /\ open' = open
\* The stream is gone: what was its own is the client's, or nobody's if the
\* client never heard of it.
Reclaim   == \E S, T \in SUBSET Image :
                /\ S \intersect T = {}
                /\ \A i \in S \union T : owner[i] = "stream"
                /\ owner' = [i \in Image |-> IF i \in S THEN "client"
                                             ELSE IF i \in T THEN "none"
                                             ELSE owner[i]]
                /\ open' = open
Destroy   == \E S \in SUBSET Image : Move(S, "client", "none") /\ open' = open
Close     == open /\ open' = FALSE /\ owner' = owner
\* Only a surface that is being destroyed takes images from the compositor.
Revoke    == \E S \in SUBSET Image : /\ ~open /\ open' = open
                                     /\ Move(S, "compositor", "client")

Next == \/ Allocate \/ Learn \/ Acquire \/ GiveBack \/ Show \/ TakeBack
        \/ Reclaim \/ Destroy \/ Close \/ Revoke

Spec == Init /\ [][Next]_vars

\* The client never sits on an image for ever.
Settles == \A i \in Image : owner[i] = "client" ~> owner[i] # "client"
=============================================================================
