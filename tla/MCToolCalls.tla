---------------------------- MODULE MCToolCalls ----------------------------
(***************************************************************************)
(* Two files, one of them a page with scripts, and a call of every tool    *)
(* that changes files, each of them colliding with another on the page.    *)
(***************************************************************************)
EXTENDS ToolCalls

CONSTANTS page, notes, whole, bug, stub, mark

MCPaths    == {page, notes}
MCContents == {whole, bug, stub, mark}

Write(p, c)   == [tool |-> "write_file", path |-> p, content |-> c]
Edit(p, a, b) == [tool |-> "edit_file", path |-> p, from |-> a, to |-> b]
Patch(p, a, b) == [tool |-> "hunk", path |-> p, from |-> a, to |-> b]
New(p, c)     == [tool |-> "new", path |-> p, content |-> c]

MCCalls ==
  { Write(page, bug), Write(page, stub), Edit(page, whole, bug),
    [tool |-> "delete_file", path |-> page],
    [tool |-> "move_file", path |-> page, to |-> notes],
    [tool |-> "create_files", parts |-> <<New(page, mark), New(notes, stub)>>],
    [tool |-> "apply_patch", parts |-> <<Patch(notes, stub, whole), Patch(page, whole, stub)>>],
    [tool |-> "run_command", path |-> page, content |-> stub],
    [tool |-> "create_project"] }

MCLarge   == {whole, bug}
MCTiny    == {stub}
MCBroken  == {bug}
MCStale   == {mark}
MCLinted  == {page}
MCInitial == { [p \in MCPaths |-> IF p = page THEN whole ELSE stub] }
MCTyped   == {whole}
=============================================================================
