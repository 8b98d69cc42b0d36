------------------------------ MODULE MCService ------------------------------
(***************************************************************************)
(* A pull request with two heads, and deliveries that ask for nothing.     *)
(***************************************************************************)
EXTENDS Service

Payload(action, head) ==
    [decodes |-> TRUE, url |-> TRUE, owner |-> TRUE, branch |-> TRUE, deleted |-> FALSE,
     action |-> action, shas |-> TRUE, head |-> head, base |-> "base", valid_repo |-> TRUE]

Delivery(event, action, head) == [signed |-> TRUE, event |-> event, payload |-> Payload(action, head)]

TwoPushes ==
    {Delivery("pull_request", "opened", "h1"), Delivery("pull_request", "synchronize", "h2"),
     Delivery("push", "none", "h2")}
    \cup {[Delivery("push", "none", "h1") EXCEPT !.signed = FALSE],
          Delivery("pull_request", "closed", "h2")}
    \cup {[Delivery("push", "none", "h1") EXCEPT !.payload.deleted = TRUE],
          [Delivery("push", "none", "h1") EXCEPT !.payload.url = FALSE],
          [Delivery("push", "none", "h1") EXCEPT !.payload.owner = FALSE]}

=============================================================================
