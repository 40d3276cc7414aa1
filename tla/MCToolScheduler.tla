--------------------------- MODULE MCToolScheduler --------------------------
(* Batches of four calls that read or write one file, touch nothing, or run *)
(* in the shell.                                                            *)
EXTENDS ToolScheduler

CONSTANT file

Call(reads, writes, category) ==
  [reads |-> reads, writes |-> writes, category |-> category]

Read == Call({file}, {}, NoCategory)
Write == Call({}, {file}, NoCategory)
Shell == Call({}, {}, "shell")
Free == Call({}, {}, NoCategory)

AnyBatch == [Calls -> {Read, Write, Shell, Free}]
=============================================================================
