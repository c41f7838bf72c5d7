---------------------------- MODULE MCDescriptors ----------------------------
(* Small programs around one pipe.                                           *)
EXTENDS Descriptors

Program3(main, handler, child) ==
    [t \in {1, 2} \X {0, 1} |->
        CASE t = <<1, 0>> -> main [] t = <<1, 1>> -> handler [] t = <<2, 0>> -> child [] OTHER -> {}]

Pipeline == Program3({"pipe", "fork", "write"}, {}, {"read", "close"})
Redirect == Program3({"pipe", "fork", "close"}, {}, {"dup2", "close"})
Handler == Program3({"pipe", "read", "close"}, {"write", "close"}, {})
Flags == Program3({"pipe", "read", "dupfd", "setfl", "open", "stat", "close"}, {}, {})
ProgramsUsed == {Pipeline, Redirect, Handler, Flags}
=============================================================================
