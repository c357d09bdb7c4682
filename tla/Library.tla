------------------------------ MODULE Library -------------------------------
(***************************************************************************)
(* The calls that run by themselves: transfers of user memory, the image   *)
(* builder, vsprintf(), the screen and the way into the kernel.  "part"    *)
(* says which a behaviour is about; the state of the others is Unused.     *)
(***************************************************************************)
EXTENDS Integers, Sequences

CONSTANTS
  UserWord, UserLimit, UserBases, UserSizes,
  Sector, BufSize, Click, ByteSize, SETUP_SECTS, DEF_SYSSIZE, BigSysSize, SetupSizes, SystemSizes,
  Formats, Arguments, ShortBits, IntBits, LongLongBits, PointerWidth,
  lines, cols, RawRow, RawCols, ByteBits, Texts, Messages, Buffers,
  TableSize, KernelAt, RealMode, _edata, end, idt_table, idt_entries, __bss_start, _end,
  BOOT_USER_PGD_PTRS, EnoughMemory, Words, Machines

VARIABLES
  part,
  ujob, ubase, umapped, upc, uk, uecx, uesi, uedi, udst, uret, utouched,
  bargs, bout, bheader, bi, bsz, bsectors, bsize, bfailed, bpc,
  vfmt, vargs, vfp, vap, vflags, vwidth, vprecision, vqualifier, vstr, vstart, vnum, vpc,
  smem, sx, sy, stext, sorig, scursor, spaper, sbuf,
  emachine, epc, eeax, eedi, epaging, emem, ecpu, ecr0

uservars == <<ujob, ubase, umapped, upc, uk, uecx, uesi, uedi, udst, uret, utouched>>
buildvars == <<bargs, bout, bheader, bi, bsz, bsectors, bsize, bfailed, bpc>>
printvars == <<vfmt, vargs, vfp, vap, vflags, vwidth, vprecision, vqualifier, vstr, vstart, vnum, vpc>>
screenvars == <<smem, sx, sy, stext, sorig, scursor, spaper, sbuf>>
entryvars == <<emachine, epc, eeax, eedi, epaging, emem, ecpu, ecr0>>
vars == <<part, uservars, buildvars, printvars, screenvars, entryvars>>
-----------------------------------------------------------------------------
User == INSTANCE UserCopy WITH
  Word <- UserWord, Limit <- UserLimit, Bases <- UserBases, Sizes <- UserSizes,
  job <- ujob, base <- ubase, mapped <- umapped, pc <- upc, k <- uk, ecx <- uecx, esi <- uesi,
  edi <- uedi, dst <- udst, ret <- uret, touched <- utouched

Image == INSTANCE Build WITH
  Host32 <- FALSE,
  args <- bargs, out <- bout, header <- bheader, i <- bi, sz <- bsz, setup_sectors <- bsectors,
  sys_size <- bsize, failed <- bfailed, pc <- bpc

Format == INSTANCE Vsprintf WITH
  fmt <- vfmt, args <- vargs, fp <- vfp, ap <- vap, flags <- vflags, field_width <- vwidth,
  precision <- vprecision, qualifier <- vqualifier, str <- vstr, start <- vstart, num <- vnum, pc <- vpc

Display == INSTANCE Screen WITH
  vidmem <- smem, x <- sx, y <- sy, s <- stext, orig <- sorig, cursor <- scursor, paper <- spaper, buf <- sbuf

Entry == INSTANCE KernelEntry WITH
  N <- TableSize, Base <- KernelAt,
  machine <- emachine, pc <- epc, eax <- eeax, edi <- eedi, paging <- epaging, mem <- emem, cpu <- ecpu, cr0 <- ecr0

ASSUME Parameters == User!ParametersOK /\ Image!SizesOK /\ Format!ArgumentsOK /\ Display!ScreenOK /\ Entry!LayoutOK /\ Entry!MachinesOK
-----------------------------------------------------------------------------
Unused == "unused"

Begin ==
  /\ IF part = "user" THEN User!Init
     ELSE /\ ujob = Unused /\ ubase = Unused /\ umapped = Unused /\ upc = Unused /\ uk = Unused
          /\ uecx = Unused /\ uesi = Unused /\ uedi = Unused /\ udst = Unused /\ uret = Unused /\ utouched = Unused
  /\ IF part = "image" THEN Image!Init
     ELSE /\ bargs = Unused /\ bout = Unused /\ bheader = Unused /\ bi = Unused /\ bsz = Unused
          /\ bsectors = Unused /\ bsize = Unused /\ bfailed = Unused /\ bpc = Unused
  /\ IF part = "format" THEN Format!Init
     ELSE /\ vfmt = Unused /\ vargs = Unused /\ vfp = Unused /\ vap = Unused /\ vflags = Unused
          /\ vwidth = Unused /\ vprecision = Unused /\ vqualifier = Unused /\ vstr = Unused
          /\ vstart = Unused /\ vnum = Unused /\ vpc = Unused
  /\ IF part = "display" THEN Display!Init
     ELSE /\ smem = Unused /\ sx = Unused /\ sy = Unused /\ stext = Unused
          /\ sorig = Unused /\ scursor = Unused /\ spaper = Unused /\ sbuf = Unused
  /\ IF part = "entry" THEN Entry!Init
     ELSE /\ emachine = Unused /\ epc = Unused /\ eeax = Unused /\ eedi = Unused
          /\ epaging = Unused /\ emem = Unused /\ ecpu = Unused /\ ecr0 = Unused

Init == part \in {"user", "image", "format", "display", "entry"} /\ Begin

OnUser(action) == part = "user" /\ action /\ UNCHANGED <<part, buildvars, printvars, screenvars, entryvars>>
UserStep == OnUser(User!Step)
ImageStep == part = "image" /\ Image!Next /\ UNCHANGED <<part, uservars, printvars, screenvars, entryvars>>
FormatStep == part = "format" /\ Format!Next /\ UNCHANGED <<part, uservars, buildvars, screenvars, entryvars>>
DisplayStep == part = "display" /\ Display!Next /\ UNCHANGED <<part, uservars, buildvars, printvars, entryvars>>
EntryStep == part = "entry" /\ Entry!Next /\ UNCHANGED <<part, uservars, buildvars, printvars, screenvars>>

Next == UserStep \/ OnUser(User!Remap \/ User!Done) \/ ImageStep \/ FormatStep \/ DisplayStep \/ EntryStep

(* A call that runs goes on, and so does the way into the kernel.          *)
Fairness == WF_vars(UserStep) /\ WF_vars(ImageStep) /\ WF_vars(FormatStep) /\ WF_vars(EntryStep)

Spec == Init /\ [][Next]_vars /\ Fairness
-----------------------------------------------------------------------------
(* Nothing is read or written outside what the call was given: a buffer,   *)
(* but for the byte of the copy that overshoots, and for a checked transfer*)
(* the user's part of the memory (uaccess.h), a format and its arguments   *)
(* (vsprintf.c), the screen and the message buffer (misc.c, panic.c), and  *)
(* the memory the tables of the kernel map, where setup's page stays as it *)
(* was but for the position on the screen (head.S, misc.c:151-152).        *)
Inside ==
  /\ part = "user" => User!Inside /\ User!UserOnly
  /\ part = "format" => Format!TypeOK
  /\ part = "display" => Display!Inside
  /\ part = "entry" => Entry!Inside

(* The result tells what was done: how much was not copied, counted twice  *)
(* only for the byte of the copy that overshoots (uaccess.h), whether the  *)
(* image is whole and can be loaded, on a host whose long is wider than int*)
(* (build.c), numbers as they can be read back (vsprintf.c), the text that *)
(* was printed (misc.c, and panic.c on the screen it knows), and whether   *)
(* the kernel can run on the machine, by the memory check as it is built,  *)
(* and finds it prepared (misc.c:242, head.S).                             *)
Reported ==
  /\ part = "user" => User!TypeOK /\ User!Accounted /\ User!AcceptsUser
  /\ part = "image" => Image!TypeOK /\ Image!GoodImage /\ Image!Loadable /\ Image!FailureNoticed /\ Image!PatchedLast
  /\ part = "format" => Format!ReadsBack /\ Format!FieldShape
  /\ part = "display" => Display!ShowsText
  /\ part = "entry" => Entry!Judged /\ Entry!Prepared

(* The calls end: with faults, failures and formats of any kind.           *)
Ends ==
  /\ part = "user" => User!Ends
  /\ part = "image" => Image!Ends
  /\ part = "format" => Format!Returns
  /\ part = "entry" => Entry!Ends
=============================================================================
