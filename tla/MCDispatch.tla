----------------------------- MODULE MCDispatch -----------------------------
(* Instances of Dispatch for TLC. *)
EXTENDS Dispatch

CONSTANTS e1, e2, e3

MCEvents == {e1, e2, e3}

\* A message, an event the plugin answers itself and one of each other kind.
MCKinds ==
    {kinds \in [MCEvents -> Kinds] :
        << kinds[e1], kinds[e2], kinds[e3] >> \in
            {<< "message", "answered", "anonymous" >>,
             << "ambient", "message", "homeless" >>,
             << "system", "logged", "ignored" >>}}

\* Two messages of one new user.
TwoMessages == {[e \in MCEvents |-> "message"]}

=============================================================================
