------------------------------- MODULE MCImage --------------------------------
(***************************************************************************)
(* Command lines and files for TLC.  The lengths of the names and the      *)
(* sizes of the files leave every remainder by four; two names stand for   *)
(* one file; options are missing, repeated or unknown, and lists have      *)
(* empty places, repetitions, or nothing.                                  *)
(***************************************************************************)
EXTENDS Image

MCTokens == {"", "timer", "fs", "usb", "drivers/core/timer/timer"}
MCLength == [t \in MCTokens |-> CASE t = "" -> 0 [] t = "timer" -> 5 [] t = "fs" -> 2
                                  [] t = "usb" -> 3 [] OTHER -> 24]

File(reads, size) == [reads |-> reads, size |-> size]
MCFiles == [{filename(t) : t \in MCTokens \ {""}} ->
              {File("whole", 0), File("whole", 1), File("whole", 3), File("whole", 6),
               File("short", 5), File("never", 4), File("missing", 0)}]

Option(is, value) == [is |-> is, value |-> value]
MCWritable == {"initrd.img"}
Out == Option("output", "initrd.img")
Add(list) == Option("add", list)
MCCommandLines ==
  {<<>>, <<Out>>, <<Add(<<"fs">>)>>, <<Add(<<"fs">>), Option("output", "")>>,
   <<Out, Add(<<"">>)>>, <<Option("output", ""), Out, Add(<<"usb">>)>>,
   <<Add(<<"fs", "", "", "usb">>), Option("help", ""), Out>>,
   <<Out, Add(<<"fs", "usb">>), Add(<<"", "timer", "drivers/core/timer/timer", "fs", "">>)>>,
   <<Out, Add(<<"usb", "usb", "timer">>)>>}
=============================================================================
