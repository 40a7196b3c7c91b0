-------------------------- MODULE MCCaptureChannel --------------------------
(***************************************************************************)
(* Messages of one, two and three parts: two texts, a font, a session      *)
(* without frames, frames without a session, and what is no message.       *)
(***************************************************************************)
EXTENDS CaptureChannel

MCParts == [control |-> 2, text |-> 3, font |-> 2, bad |-> 1]
Control(session, allowed) == [kind |-> "control", session |-> session, allowed |-> allowed]
MCMessages ==
    { Control(TRUE, FALSE), Control(FALSE, TRUE),
      [kind |-> "text", text |-> "kana"],
      [kind |-> "text", text |-> ""],
      [kind |-> "font"],
      [kind |-> "bad"] }
=============================================================================
