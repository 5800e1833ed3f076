------------------------------- MODULE MCWorld -------------------------------
(* What a bot knows of its world, and the ways it finds there, side by side: *)
(* a behaviour is one of either, the other standing still.                   *)
EXTENDS BotWorld, Pathfind
VARIABLE scene
sceneVars == <<scene, worldVars, pathVars>>

Plain(n, width, solid, objects) ==
  [name |-> n, fg |-> [c \in 1..width |-> IF c \in solid THEN "dirt" ELSE "air"],
   bg |-> [c \in 1..width |-> "air"], objects |-> objects, next |-> Cardinality(objects) + 1]
Cave == Plain("cave", 2, {2}, {})
Farm == Plain("farm", 3, {}, {[uid |-> 1, item |-> "dirt", at |-> 1, n |-> 2]})
Cell == Plain("cell", 1, {}, {[uid |-> 1, item |-> "dirt", at |-> 1, n |-> 2]})
Topic(what, where) == [of |-> what, maps |-> where]
\* Packets and commands that touch common state go together.
MCTopics == {Topic({"tiles", "trees", "place", "state"}, {Cave}),
             Topic({"state", "inventory", "wear", "console"}, {Cave}),
             Topic({"state", "objects", "players"}, {Cell, Cave}),
             Topic({"moves", "walk", "trees"}, {Cave, Farm}),
             Topic({"dialogs", "players", "settings"}, {Cave})}

Grid(w, h, solid, gated) ==
  [w |-> w, h |-> h, ct |-> [c \in (0..(w - 1)) \X (0..(h - 1)) |->
     IF c \in solid THEN 1 ELSE IF c \in gated THEN 3 ELSE 0]]
\* Every map of 3 x 3 cells with up to four solid blocks.
Square == {Grid(3, 3, s, {}) : s \in {x \in SUBSET ((0..2) \X (0..2)) : Cardinality(x) <= 4}}
\* Maps to warp between: a wall with a gate, the wall moved, and two of other sizes.
Walled == Grid(3, 3, {<<1, 0>>, <<1, 1>>}, {<<1, 2>>})
Open == Grid(3, 3, {<<1, 1>>}, {})
Narrow == Grid(2, 3, {<<1, 1>>}, {})
Wide == Grid(4, 3, {<<1, 0>>, <<1, 1>>}, {<<2, 2>>})
Few == {Walled, Open, Narrow, Wide}
\* Maps on which a better way to a cell is found after a first one.
Detours == {Grid(5, 3, {<<3, 1>>}, {}), Grid(4, 4, {<<1, 1>>, <<2, 3>>}, {}),
            Grid(4, 3, {<<2, 0>>, <<2, 1>>, <<2, 2>>}, {})}
MCMaps == Square \cup Few \cup Detours
MCAsks == [m \in MCMaps |-> IF m \in Few THEN 2 ELSE 1]
MCWarps == {p \in Few \X Few : p[1] # p[2]}
\* From a corner and from an edge, with and without access.
MCQueries == {<<f, t, a>> : f \in {<<0, 0>>, <<1, 0>>},
                            t \in (0..2) \X (0..2), a \in {FALSE}}
             \cup {<<<<0, 0>>, <<2, 0>>, TRUE>>, <<<<0, 0>>, <<4, 1>>, FALSE>>,
                   <<<<0, 0>>, <<3, 3>>, FALSE>>, <<<<0, 0>>, <<3, 1>>, FALSE>>}

SomeTopic == CHOOSE t \in MCTopics : TRUE
MCInit == /\ scene \in {"world", "paths"} /\ WorldInit /\ PathInit
          /\ scene # "world" => topic = SomeTopic
          /\ scene # "paths" => map = Open
MCNext == \/ scene = "world" /\ WorldNext /\ UNCHANGED <<scene, pathVars>>
          \/ scene = "paths" /\ PathNext /\ UNCHANGED <<scene, worldVars>>
InWorld(A) == scene = "world" /\ A
MCSpec == MCInit /\ [][MCNext]_sceneVars /\ WF_worldVars(InWorld(WalkReplans \/ WalkStep))
=============================================================================
