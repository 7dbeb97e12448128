---------------------------- MODULE MCGuiExecutor ----------------------------
(* Model-checking instance of GuiExecutor. *)
EXTENDS GuiExecutor
=============================================================================
