---------------------------- MODULE MCLaunchTask ----------------------------
(***************************************************************************)
(* LaunchTask for TLC: a launch with a step of every kind in the order     *)
(* createLaunchTask puts them in, one with two tasks in a row, and one     *)
(* that ends with the game.                                                *)
(***************************************************************************)
EXTENDS LaunchTask

MCLaunches ==
    {<<"plain", "query", "command", "task", "plain", "game", "command">>,
     <<"plain", "task", "task", "game">>}
=============================================================================
