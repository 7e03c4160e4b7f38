---------------------------- MODULE MCEventStream ----------------------------
(* EventStream for TLC: short transcripts with every kind of block. *)
EXTENDS EventStream

Msg(r, b) == [role |-> r, blocks |-> b]

(* The prompt, a tool call with a text before it, its result, the answer;  *)
(* between them blocks that become no event.                               *)
ToolTranscript ==
    << Msg("user", <<"text">>),
       Msg("assistant", <<"text", "other", "tool_use">>),
       Msg("user", <<"tool_result">>),
       Msg("assistant", <<"empty_text", "text">>) >>

(* The prompt, one tool call, its result. *)
ShortTranscript ==
    << Msg("user", <<"text">>),
       Msg("assistant", <<"text", "tool_use">>),
       Msg("user", <<"tool_result">>) >>
=============================================================================
