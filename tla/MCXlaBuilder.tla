----------------------------- MODULE MCXlaBuilder -----------------------------
(* Small meshes and sharding specifications for XlaBuilder. *)
EXTENDS XlaBuilder

AskFor(name, sizes, axes) == [name |-> name, sizes |-> sizes, axes |-> axes]
MCMeshLists == {<< >>, <<AskFor("m", <<2, 2>>, <<"x", "y">>)>>, <<AskFor("m", <<4>>, <<"x">>), AskFor("n", <<2>>, <<"x">>)>>,
                <<AskFor("m", <<2>>, <<"x">>), AskFor("n", <<5>>, <<"x">>)>>, <<AskFor("m", <<2, 2>>, <<"x", "x">>)>>,
                <<AskFor("m", <<2>>, <<"x">>), AskFor("m", <<2>>, <<"y">>)>>, <<AskFor("m", <<2, 1, 2>>, <<"x", "y", "z">>)>>}

On(mesh, axes) == [mesh |-> mesh, axes |-> [i \in DOMAIN axes |-> [j \in DOMAIN axes[i] |-> [axis |-> axes[i][j], preSize |-> 0, size |-> 0]]]]
MCShardingSpecs == {On("m", <<<<"x">>, << >>>>), On("m", <<<<"y", "x">>>>), On("n", <<<<"x">>>>), On("m", <<<<"x">>, << >>, << >>>>)}
MCAssignments == {<<0>>, <<3>>, <<1, 0>>, <<0, 1, 2, 3>>, <<3, 1, 2, 0>>, <<0, 4>>}
===============================================================================
