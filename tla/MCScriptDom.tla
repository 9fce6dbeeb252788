----------------------------- MODULE MCScriptDom -----------------------------
(* An instance of ScriptDom for TLC.  Script makes elements, fragments and
   templates; text nodes come from strings, and no comment is made, which the
   tree treats as it does text away from the document itself. *)
EXTENDS ScriptDom

MCKinds == {"element", "fragment", "template"}
=============================================================================
