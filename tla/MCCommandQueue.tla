---------------------------- MODULE MCCommandQueue ----------------------------
(* The lists of commands for TLC.                                          *)
EXTENDS CommandQueue

MCLists == {<<"board">>, <<"delayed">>, <<"flush">>,
            <<"board", "plain">>, <<"plain", "board">>, <<"board", "board">>,
            <<"board", "delayed">>, <<"delayed", "plain">>, <<"board", "silent">>}
===============================================================================
