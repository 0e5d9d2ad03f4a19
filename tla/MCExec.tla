------------------------------- MODULE MCExec -------------------------------
(* Lines with and without an end, empty ones, characters of two bytes, and one that is half. *)
EXTENDS ExecHandle

MCOutput ==
    [stdout |-> { <<"nl", "lead", "trail">>, <<"x", "nl">> },
     stderr |-> { <<"x">> }]

=============================================================================
