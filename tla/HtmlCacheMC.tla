---------------------------- MODULE HtmlCacheMC ----------------------------
(***************************************************************************)
(* HtmlCache for TLC: a page that three paths lead to, and a directory     *)
(* whose index is two of them.                                             *)
(***************************************************************************)
EXTENDS HtmlCache

CONSTANTS home, alias, third, dir, homeFile

MCPaths  == {home, alias, third}
MCFileOf == [p \in MCPaths |-> homeFile]
MCIndex  == <<alias, third>>
=============================================================================
