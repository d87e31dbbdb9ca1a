---------------------------- MODULE MCReActDurable ----------------------------
(* Batches of one to three calls: side effects before and behind a question, *)
(* two questions in a row, finish and return_direct alone and beside one.    *)
EXTENDS ReActDurable

MCBatches ==
    {<<"act">>, <<"act", "ask">>, <<"direct", "ask", "act">>, <<"finish">>, <<"ask", "finish">>}
=============================================================================
