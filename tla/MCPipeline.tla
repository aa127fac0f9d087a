------------------------------ MODULE MCPipeline ------------------------------
(* An instance of Pipeline: address 1 is foreign and only the dynamic       *)
(* linker knows its binary; address 2 is OCaml code of g, with f inlined.   *)
EXTENDS Pipeline

MCSyminfo == 0 :> NoName @@ 1 :> NoName @@ 2 :> <<"g">>
MCPcinfo ==
    0 :> <<[file |-> NoName, function |-> NoName]>>
 @@ 1 :> <<[file |-> NoName, function |-> NoName]>>
 @@ 2 :> <<[file |-> <<"a.ml">>, function |-> <<"f">>],
           [file |-> <<"a.ml">>, function |-> NoName]>>
MCDladdr ==
    0 :> [sname |-> NoName, fname |-> NoName]
 @@ 1 :> [sname |-> NoName, fname |-> <<"libc">>]
 @@ 2 :> [sname |-> <<"g">>, fname |-> <<"main.exe">>]

\* Nothing tells the two signals apart but the counts they are counted in.
Symmetry == Permutations(Signals)

==============================================================================
