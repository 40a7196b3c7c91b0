--------------------------- MODULE MCPluginWorker ---------------------------
(* Instances of the plugin worker for model checking. *)
EXTENDS PluginWorker

(* hook plugins and overlays, each on Linux and on Windows *)
AllBuilds == [overlay : BOOLEAN, windows : BOOLEAN]
=============================================================================
