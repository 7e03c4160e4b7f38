---------------------------- MODULE MCEvalHarness ----------------------------
(* EvalSuite for TLC: an agent that calls a tool and may end there. *)
EXTENDS EvalSuite

Msg(r, b) == [role |-> r, blocks |-> b]

CallTranscript ==
    << Msg("user", <<"text">>),
       Msg("assistant", <<"tool_use">>) >>
=============================================================================
