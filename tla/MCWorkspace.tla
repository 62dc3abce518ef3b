---------------------------- MODULE MCWorkspace ----------------------------
(* Model-checking instance of Workspace: two workspaces built one after    *)
(* the other under the same name (enough for the first one's goroutine to  *)
(* race the second one's construction), and an owner that may call Close  *)
(* twice (a Close racing the goroutine's deferred Close, and a repeated    *)
(* Close).                                                                 *)
EXTENDS Workspace

MCIncarnations == 2
MCMaxClose == 2
=============================================================================
