----------------------------- MODULE MCPipeline -----------------------------
(* Pipeline with a folder and a file in it *)
EXTENDS Pipeline

CONSTANTS folder, file

FolderAndFile == {folder, file}
Ancestors == [p \in FolderAndFile |-> IF p = file THEN {folder, file} ELSE {folder}]
=============================================================================
