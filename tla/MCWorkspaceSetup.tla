--------------------------- MODULE MCWorkspaceSetup ---------------------------
(* A small instance of WorkspaceSetup for TLC: the user's repository, in    *)
(* two forms of its URL, an empty project and two scripts, all of version 0 *)
(* or one of each of version 1, with what only version 1 knows.             *)
EXTENDS WorkspaceSetup

CONSTANTS dotfiles, project, e1, e2

MCUrls == [r \in Repos |-> IF r = dotfiles THEN 2 ELSE 1]
Old == [v1 |-> {}, unknown |-> {}, disabled |-> {}, archived |-> {}]
New == [Old EXCEPT !.v1 = {project, e2}]
MCPlans == {Old, New, [New EXCEPT !.unknown = {project}, !.disabled = {e2}],
            [New EXCEPT !.archived = {e2}],
            [New EXCEPT !.v1 = {project, e1, e2}, !.archived = {e2}]}
=============================================================================
