--------------------------- MODULE MCConversation ---------------------------
(* Instances of Conversation for TLC.                                      *)
EXTENDS Conversation

Does(kind, tools) == [kind |-> kind, tools |-> tools]

\* a tool of each verdict of the policy; a plan whose first step is privileged and
\* whose second is not
MixedJobs == {
  Does("tool", <<"run_command">>), Does("chat", <<>>),
  Does("plan", <<"run_command", "open_application">>),
  Does("direct", <<"run_command">>), Does("direct", <<"format_disk">>)}
=============================================================================
