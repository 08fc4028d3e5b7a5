---------------------------- MODULE MCAutomation ----------------------------
\* An instance of Automation for TLC: a playbook for outside events that submits and then
\* may notify, and one for notifications, by wildcard, that notifies again.
EXTENDS Automation, TLC

CONSTANTS triage, echo

HeardEvents ==
  (triage :> [event |-> "external", wild |-> FALSE])
  @@ (echo :> [event |-> "playbook.notification", wild |-> TRUE])
ActionsOf ==
  (triage :> <<[type |-> "sandbox", guarded |-> FALSE, goesOn |-> FALSE],
              [type |-> "notify", guarded |-> TRUE, goesOn |-> TRUE]>>)
  @@ (echo :> <<[type |-> "effect", guarded |-> FALSE, goesOn |-> FALSE],
                [type |-> "notify", guarded |-> FALSE, goesOn |-> FALSE]>>)
=============================================================================
