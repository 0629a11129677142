-------------------------------- MODULE Image ---------------------------------
(***************************************************************************)
(* The builder of cpio images, tools/os-builder.c: from its command line   *)
(* to its exit, a step per module added.  What is written is a sequence of *)
(* parts, each as long as the bytes it stands for; a header part has the   *)
(* two sizes that a reader goes by, as digits.                             *)
(*                                                                         *)
(* External: the files, some of which are missing or cannot be read whole, *)
(* and the reader.  fwrite is taken not to fail, as the code does.         *)
(***************************************************************************)
EXTENDS Integers, Sequences, SequencesExt

CONSTANTS CommandLines, \* sequences of options: [is, value], value a sequence of tokens
          Length,       \* Length[token]: its strlen
          Files,        \* [path -> how it reads]: what the file system may be
          Writable      \* the output files that fopen can create

(* Four tokens stand for files that lie elsewhere.                         *)
filename(token) ==
  CASE token = "timer"    -> "drivers/core/timer/timer"
    [] token = "keyboard" -> "drivers/core/keyboard/keyboard"
    [] token = "vga"      -> "drivers/core/vga/vga"
    [] token = "terminal" -> "sys/terminal/terminal"
    [] OTHER              -> token

ASSUME LinesAssumption ==
  \A line \in CommandLines :
    /\ line \in Seq({line[i] : i \in DOMAIN line})
    /\ \A i \in DOMAIN line : line[i].is = "add" => line[i].value \in Seq(DOMAIN Length)

(* A file name is at most "build/modules/" and ".o" longer than its token, *)
(* and fits the 256 characters there are for it.                           *)
ASSUME FilesAssumption ==
  /\ \A t \in DOMAIN Length : Length[t] \in 0..239
  /\ \A f \in Files : \A p \in DOMAIN f :
       f[p].reads \in {"whole", "short", "never", "missing"} /\ f[p].size \in Nat
  /\ \A f \in Files : \A t \in DOMAIN Length \ {""} : filename(t) \in DOMAIN f

VARIABLES files,   \* what there is
          argv,    \* the command line
          stage,   \* "started", "adding", or "ended"
          passed,  \* how many places of the last --add strtok has passed
          cpio,    \* the parts of the archive
          status,  \* what main returned
          added    \* auxiliary: the tokens whose turn has been

imageVars == <<files, argv, stage, passed, cpio, status, added>>

HEADER == 110  \* sizeof(struct cpio_header)
-----------------------------------------------------------------------------
(* The format is "%08lo": octal digits, eight at least.  Seven of them are *)
(* left, the first ones: the eighth byte of the field is set to zero.      *)
format_cpio_field(n) ==
  LET digits == CHOOSE d \in 8..22 : n < 8^d /\ \A e \in 8..(d - 1) : n >= 8^e
  IN  [k \in 1..7 |-> (n \div 8^(digits - k)) % 8]

(* A part is written where the one before it ends.  (Variants, named after *)
(* what is wrong in them, belong to no behaviour.)                         *)
Part(what, of, at, size) ==
  [what |-> what, of |-> of, at |-> at, size |-> size, fields |-> <<>>]
position == IF cpio = <<>> THEN 0 ELSE Last(cpio).at + Last(cpio).size
Header(what, of, namesize, filesize) ==
  [what |-> what, of |-> of, at |-> position, size |-> HEADER,
   fields |-> <<format_cpio_field(namesize), format_cpio_field(filesize)>>]
Padding(n) == (4 - (n % 4)) % 4

(* One more than the length, and ".o".                                     *)
dest_size(token) == Length[token] + 3
NamePadding_WithoutNul(size) == Padding(HEADER + size - 1)
NamePadding(size) == Padding(HEADER + size)

(* All that can fail does before the first byte is written.                *)
Entry(path, token) ==
  LET name == position + HEADER
      pad  == name + dest_size(token)
      data == pad + NamePadding(dest_size(token))
      end  == data + files[path].size
  IN  <<Header("header", token, dest_size(token), files[path].size),
        Part("name", token, name, dest_size(token)), Part("pad", token, pad, data - pad),
        Part("data", path, data, files[path].size),
        Part("pad", token, end, Padding(files[path].size))>>

add_file_to_cpio_LateRead(path, token) ==
  CASE files[path].reads = "whole" -> Entry(path, token)
    [] files[path].reads = "short" -> SubSeq(Entry(path, token), 1, 3)
    [] OTHER -> <<>>
add_file_to_cpio(path, token) ==
  IF files[path].reads = "whole" THEN Entry(path, token) ELSE <<>>

(* The trailer's name is 11 long, as written.                              *)
EndOfArchive ==
  LET name == position + HEADER
  IN  <<Header("trailer", "TRAILER!!!", 11, 0), Part("name", "TRAILER!!!", name, 11),
        Part("pad", "TRAILER!!!", name + 11, NamePadding(11))>>
-----------------------------------------------------------------------------
ImageInit ==
  /\ files \in Files /\ argv \in CommandLines
  /\ stage = "started" /\ passed = 0 /\ cpio = <<>> /\ status = 0 /\ added = <<>>

(* The last option of a kind is the one that counts.                       *)
LastOf(kind) == SelectLastInSeq(argv, LAMBDA option : option.is = kind)
output_filename == argv[LastOf("output")].value
modules_to_add  == IF LastOf("add") = 0 THEN <<>> ELSE argv[LastOf("add")].value

main_fails ==
  /\ stage = "started"
  /\ IF LastOf("output") = 0 THEN TRUE ELSE output_filename \notin Writable
  /\ stage' = "ended" /\ status' = 1
  /\ UNCHANGED <<files, argv, passed, cpio, added>>

main_begins ==
  /\ stage = "started" /\ LastOf("output") # 0 /\ output_filename \in Writable
  /\ stage' = "adding"
  /\ UNCHANGED <<files, argv, passed, cpio, status, added>>

(* strtok passes over what is empty between two commas, and returns NULL   *)
(* when there is nothing else.                                             *)
EmptyFrom(i, k) == \A p \in i..k : modules_to_add[p] = ""
strtok_StopsAtEmpty(k) ==
  k = passed + 1 /\ k \in DOMAIN modules_to_add /\ modules_to_add[k] # ""
strtok(k) ==
  /\ k \in (passed + 1)..Len(modules_to_add)
  /\ modules_to_add[k] # "" /\ EmptyFrom(passed + 1, k - 1)

add_module ==
  /\ stage = "adding"
  /\ \E k \in DOMAIN modules_to_add :
       LET token == modules_to_add[k]
       IN  /\ strtok(k) /\ passed' = k
           /\ cpio' = cpio \o add_file_to_cpio(filename(token), token)
           /\ added' = Append(added, token)
  /\ UNCHANGED <<files, argv, stage, status>>

main_ends ==
  /\ stage = "adding" /\ \A k \in DOMAIN modules_to_add : ~strtok(k)
  /\ cpio' = cpio \o EndOfArchive
  /\ stage' = "ended"
  /\ UNCHANGED <<files, argv, passed, status, added>>

exited == stage = "ended" /\ UNCHANGED imageVars

ImageNext == main_fails \/ main_begins \/ add_module \/ main_ends \/ exited

ImageSpec == ImageInit /\ [][ImageNext]_imageVars
-----------------------------------------------------------------------------
(* Where what follows n bytes belongs.                                     *)
Up(n) == CHOOSE m \in n..(n + 3) : m % 4 = 0

EndToEnd ==
  \A i \in DOMAIN cpio :
    cpio[i].at = IF i = 1 THEN 0 ELSE cpio[i - 1].at + cpio[i - 1].size
Aligned(i) ==
  LET data == Up(cpio[i].at + HEADER + cpio[i + 1].size)
  IN  /\ cpio[i].at % 4 = 0 /\ i + 4 \in DOMAIN cpio
      /\ cpio[i + 1].what = "name" /\ cpio[i + 1].of = cpio[i].of
      /\ cpio[i + 3].what = "data" /\ cpio[i + 3].at = data
      /\ cpio[i + 4].at + cpio[i + 4].size = Up(data + cpio[i + 3].size)

(* The magic number, 070701, tells a reader that digits are hexadecimal.   *)
Hexadecimal(field) ==
  16 * (16 * (16 * (16 * (16 * (16 * field[1] + field[2]) + field[3]) + field[4])
                 + field[5]) + field[6]) + field[7]
Misread(i) == i + 1 \in DOMAIN cpio /\ Hexadecimal(cpio[i].fields[1]) < cpio[i + 1].size

(* The layout is that of the format: parts lie end to end, headers and     *)
(* data begin at multiples of four, the data the next after the name and   *)
(* the next header after the data, also when data is empty or a file was   *)
(* left out.  But nobody can tell from the archive: by its header, every   *)
(* name, the trailer's too, is shorter than it is, so that a reader loses  *)
(* its place in the first entry, and does not know the trailer.            *)
OnlyLayoutIsRight ==
  /\ EndToEnd
  /\ \A i \in DOMAIN cpio : cpio[i].what = "header" => Aligned(i) /\ Misread(i)
  /\ \A i \in DOMAIN cpio : cpio[i].what = "trailer" => cpio[i].at % 4 = 0 /\ Misread(i)

(* Sequences chosen from others, part by part.                             *)
Readable(token) == files[filename(token)].reads = "whole"
NamesOf(parts) ==
  FlattenSeq([i \in DOMAIN parts |-> IF parts[i].what = "header" THEN <<parts[i].of>> ELSE <<>>])
ReadableOf(turns) ==
  FlattenSeq([i \in DOMAIN turns |-> IF Readable(turns[i]) THEN <<turns[i]>> ELSE <<>>])
NonemptyOf(list) ==
  FlattenSeq([i \in DOMAIN list |-> IF list[i] # "" THEN <<list[i]>> ELSE <<>>])

(* Files that fail leave no trace: at any time the archive has an entry,   *)
(* under its own name, for each module whose turn has been and whose file  *)
(* could be read, in that order, and nothing else but, last, the trailer.  *)
NoHalfEntries ==
  /\ NamesOf(cpio) = ReadableOf(added)
  /\ {i \in DOMAIN cpio : cpio[i].what = "trailer"} =
       IF stage = "ended" /\ status = 0 THEN {Len(cpio) - 2} ELSE {}

(* Exit status 0 means that every module of the last --add had its turn,   *)
(* whatever else the command line and the commas between modules were; 1   *)
(* means that nothing was written.                                         *)
ExitMeansTurns ==
  stage = "ended" =>
    IF status = 1 THEN cpio = <<>>
    ELSE \/ added = <<>> /\ \A i \in DOMAIN argv : argv[i].is # "add"
         \/ \E i \in DOMAIN argv :
              /\ argv[i].is = "add" /\ \A k \in (i + 1)..Len(argv) : argv[k].is # "add"
              /\ added = NonemptyOf(argv[i].value)
=============================================================================
