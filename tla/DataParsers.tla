----------------------------- MODULE DataParsers -----------------------------
(* How the numbers among the arguments of an event become words            *)
(* (src/pkg/events/parse_args.go, parse_args_helpers.go and                *)
(* src/common/parsers/data_parsers.go).  ParseDataFields looks at the      *)
(* event and hands each field it knows to a parser; the parser spells a    *)
(* mask as the names of its flags, or an enumeration as one name, and an   *)
(* error of a parser leaves the number in decimal.                         *)
(*                                                                         *)
(* Masks are sets of bits and enumerations numbers (ParserTables); -1 is   *)
(* what a negative field becomes, the greatest uint64.  The text is the    *)
(* sequence of the words between the bars.  Pointers, printed in           *)
(* hexadecimal, and the syscall numbers of sys_enter and sys_exit, looked  *)
(* up among the events, are left out, as are the file descriptors of       *)
(* ParseDataFieldsFDs.                                                     *)
EXTENDS ParserTables, FiniteSets

CONSTANT FieldValues(_, _) \* the values of fields: architecture, parser

VARIABLES argRow,  \* event, field, type of the field, parser, architecture
          argRaw,  \* the value in the event
          argText  \* what it became

parserVars == <<argRow, argRaw, argText>>

Unparsed == [kind |-> "unparsed", names |-> <<>>, page |-> <<>>]
Number == [kind |-> "number", names |-> <<>>, page |-> <<>>]
Panic == [kind |-> "panic", names |-> <<>>, page |-> <<>>]
Named(names) == [kind |-> "names", names |-> names, page |-> <<>>]

-----------------------------------------------------------------------------
(* Masks.                                                                  *)
optionIsContainedInArgument(raw, option) == option \subseteq raw

NamesOf(rows) == [i \in DOMAIN rows |-> rows[i].name]

buildStringFromValues(values, raw) ==
  NamesOf(SelectSeq(values, LAMBDA a : optionIsContainedInArgument(raw, a.bits)))

(* A mask of which no flag is known is an error.                           *)
OrNumber(names) == IF names = <<>> THEN Number ELSE Named(names)

ParseCloneFlags(flags) ==
  IF flags = {} THEN Named(<<>>) ELSE OrNumber(buildStringFromValues(cloneFlagsValues, flags))

openFlagsValues(arch) == IF arch = "amd64" THEN openFlagsValuesAmd64 ELSE openFlagsValuesArm64

(* O_RDONLY is 0: it is what remains when neither of the others is there.  *)
ParseOpenFlagArgument(arch, flags) ==
  LET mode == CASE {0} \subseteq flags -> "O_WRONLY"
                [] {0} \cap flags = {} /\ {1} \subseteq flags -> "O_RDWR"
                [] OTHER -> "O_RDONLY"
  IN  Named(<<mode>> \o buildStringFromValues(openFlagsValues(arch), flags))

ParseAccessMode(mode) ==
  IF mode = {} THEN Named(<<"F_OK">>) ELSE OrNumber(buildStringFromValues(accessModeValues, mode))

ParseFaccessatFlag(flags) ==
  IF flags = {} THEN Named(<<>>) ELSE OrNumber(buildStringFromValues(faccessatFlagsValues, flags))

ParseFchmodatFlag(flags) ==
  IF flags = {} THEN Named(<<>>) ELSE OrNumber(buildStringFromValues(fchmodatFlagsValues, flags))

ParseExecveatFlag(flags) ==
  IF flags = {} THEN Named(<<>>) ELSE OrNumber(buildStringFromValues(execveAtFlagsValues, flags))

(* The low four bits are an enumeration; one that is not known is printed  *)
(* as the whole number.                                                    *)
ParseSocketType(raw) ==
  LET type == SelectSeq(socketTypeMap, LAMBDA t : t.bits = raw \cap 0 .. 3)
  IN  Named((IF type = <<>> THEN <<"decimal">> ELSE NamesOf(type))
            \o buildStringFromValues(socketTypeFlags, raw))

(* The first of the file types the mode contains, in an order in which a   *)
(* type comes before the ones it contains.                                 *)
FileType(raw) ==
  LET types == buildStringFromValues(inodeTypes, raw)
  IN  IF types = <<>> THEN <<>> ELSE <<types[1]>>

(* All the permissions of a class have a name of their own.                *)
ModeOf(class, raw) ==
  IF optionIsContainedInArgument(raw, inodeAll[class].bits)
  THEN <<inodeAll[class].name>>
  ELSE buildStringFromValues(SubSeq(inodePermissions, 3 * class - 2, 3 * class), raw)

ParseInodeMode(raw) == Named(FileType(raw) \o ModeOf(1, raw) \o ModeOf(2, raw) \o ModeOf(3, raw))

ParseMmapProt(raw) ==
  IF raw = {} THEN Named(<<"PROT_NONE">>) ELSE Named(buildStringFromValues(mmapProtArgs, raw))

ParseNamespaceType(raw) ==
  IF raw = {} THEN Number ELSE OrNumber(buildStringFromValues(namespaceTypeValues, raw))

-----------------------------------------------------------------------------
(* Masks of which the bits up to a last one are looked up one by one.  Of  *)
(* the entries of a map with the same key the last one stays.              *)
FlagAt(map, i) ==
  LET rows == SelectSeq(map, LAMBDA a : a.bits = {i})
  IN  IF rows = <<>> THEN "UNKNOWN_FLAG" ELSE rows[Len(rows)].name

ByShift(map, last, raw) ==
  LET bits == SelectSeq([i \in 1 .. last + 1 |-> i - 1], LAMBDA i : i \in raw)
  IN  [k \in DOMAIN bits |-> FlagAt(map, bits[k])]

HugetlbFlagEncodeShift == 26
MapHugeSizeMask == HugetlbFlagEncodeShift .. HugetlbFlagEncodeShift + 5

(* The number that bits from first to last spell.                          *)
NumberIn(raw, first, last) ==
  LET f[i \in first - 1 .. last] ==
        IF i < first THEN 0 ELSE f[i - 1] + (IF i \in raw THEN 2 ^ (i - first) ELSE 0)
  IN  f[last]

(* The size of a huge page, given by its logarithm, in the unit that       *)
(* leaves it below 1024.                                                   *)
getHugeMapSizeFlagString(raw) ==
  LET power == NumberIn(raw, HugetlbFlagEncodeShift, HugetlbFlagEncodeShift + 5)
      unit == CHOOSE i \in 0 .. 6 : power < (i + 1) * 10 /\ \A j \in 0 .. i - 1 : power >= (j + 1) * 10
  IN  <<2 ^ (power % 10), unit>>

ParseMmapFlags(raw) ==
  [kind |-> "names",
   names |-> ByShift(mmapFlagMap, HugetlbFlagEncodeShift - 1, raw),
   page |-> IF raw \cap MapHugeSizeMask = {} THEN <<>> ELSE getHugeMapSizeFlagString(raw)]

IoUringSetupFlagShiftMax == 15
ParseIoUringSetupFlags(raw) == Named(ByShift(ioUringSetupFlagMap, IoUringSetupFlagShiftMax, raw))

IoUringRequestFlagShiftMax == 14
ParseIoUringRequestFlags(raw) == Named(ByShift(ioUringRequestFlagMap, IoUringRequestFlagShiftMax, raw))

GupFlagShiftMax == 21
ParseGUPFlags(raw) == Named(ByShift(GUPFlagMap, GupFlagShiftMax, raw))

LegacyGupFlagShiftMax == 22
ParseLegacyGUPFlags(raw) == Named(ByShift(LegacyGUPFlagMap, LegacyGupFlagShiftMax, raw))

VmFlagShiftMax == 37
ParseVmFlags(raw) == Named(ByShift(VmFlagMap, VmFlagShiftMax, raw))

FsNotifyMaskShiftMaxOneLess == 29
FsNotifyMaskShiftMax == 30
ParseFsNotifyMask(raw) == Named(ByShift(FsNotifyMaskMap, FsNotifyMaskShiftMax, raw))

-----------------------------------------------------------------------------
(* Enumerations.  Some are found by position, after a test of the upper    *)
(* bound alone (the comparison is unsigned), some by search, some in a map.*)
ByIndex(values, n) ==
  LET first == values[1].number
  IN  IF n < 0 \/ n > values[Len(values)].number THEN Number
      ELSE IF n < first THEN Panic
      ELSE Named(<<values[n - first + 1].name>>)

ByValue(values, n) ==
  LET rows == SelectSeq(values, LAMBDA a : a.number = n)
  IN  IF rows = <<>> THEN Number ELSE Named(<<rows[1].name>>)

ParseCapability(n) == ByIndex(capabilityValues, n)
ParsePrctlOption(n) == ByValue(prctlOptionValues, n)
ParseBPFCmd(n) == ByIndex(bpfCmdValues, n)

ptraceRequestValues(arch) ==
  IF arch = "amd64" THEN ptraceRequestValuesAmd64 ELSE ptraceRequestValuesArm64
ParsePtraceRequestArgument(arch, n) == ByValue(ptraceRequestValues(arch), n)

ParseSocketcallCall(n) == ByIndex(sysNetValues, n)
ParseSocketDomainArgument(n) == ByIndex(socketDomainValues, n)
ParseSocketLevel(n) == ByValue(socketLevelMap, n)

setSocketOptionMap == SelectSeq(socketOptions, LAMBDA a : a.name # "SO_GET_FILTER")
getSocketOptionMap == SelectSeq(socketOptions, LAMBDA a : a.name # "SO_ATTACH_FILTER")
ParseSetSocketOption(n) == ByValue(setSocketOptionMap, n)
ParseGetSocketOption(n) == ByValue(getSocketOptionMap, n)

ParseBPFProgType(n) == ByValue(bpfProgTypeMap, n)

bpfFuncsMap == bpfFuncsFrom0 \o bpfFuncsFrom106
ParseBPFFunc(n) == ByValue(bpfFuncsMap, n)

(* Two words of which each bit is the number of a helper.                  *)
parseBpfHelpersUsage(raw) ==
  LET used == SelectSeq([i \in 1 .. 256 |-> i - 1], LAMBDA i : i \in raw)
      Spelled(i) == IF ParseBPFFunc(i) = Number THEN "decimal" ELSE ParseBPFFunc(i).names[1]
  IN  Named([k \in DOMAIN used |-> Spelled(used[k])])

attachTypes == <<"raw_tracepoint", "tracepoint", "kprobe", "kretprobe", "uprobe", "uretprobe">>
parseBpfAttachType(n) == IF n \in 0 .. 5 THEN Named(<<attachTypes[n + 1]>>) ELSE Number

alerts == <<"Unknown alert", "MmapWX", "MprotectToX", "MprotectXToWX", "MprotectWXToX">>
MemProtAlertString(n) == Named(<<IF n \in 1 .. 4 THEN alerts[n + 1] ELSE alerts[1]>>)

readTypes == <<"unknown", "firmware", "kernel-module", "kexec-image", "kexec-initramfs",
               "security-policy", "x509-certificate">>
KernelReadTypeString(n) == Named(<<IF n \in 1 .. 6 THEN readTypes[n + 1] ELSE readTypes[1]>>)

ParseIoUringOp(n) == ByValue(ioUringOpMap, n)
ParseFsNotifyObjType(n) == ByValue(fsNotifyObjTypeMap, n)

-----------------------------------------------------------------------------
(* Which field of which event is of which type and parsed by which parser. *)
Fields(events, field, type, parser) == {<<e, field, type, parser>> : e \in events}

MemoryAndSocketFields ==
  Fields({"MemProtAlert"}, "alert", "UInt32", "memProtAlert")
  \cup Fields({"MemProtAlert", "Mmap", "Mprotect", "PkeyMprotect", "SecurityFileMprotect"},
              "prot", "Int32", "mmapProt")
  \cup Fields({"SecurityMmapFile", "DoMmap"}, "prot", "UInt64", "mmapProt")
  \cup Fields({"MemProtAlert", "SecurityFileMprotect"}, "prev_prot", "Int32", "mmapProt")
  \cup Fields({"CapCapable"}, "cap", "Int32", "capability")
  \cup Fields({"DoMmap"}, "mmap_flags", "UInt64", "mmapFlags")
  \cup Fields({"Mmap"}, "flags", "Int32", "mmapFlags")
  \cup Fields({"Ptrace"}, "request", "Int64", "ptraceRequest")
  \cup Fields({"Prctl", "SecurityTaskPrctl"}, "option", "Int32", "prctlOption")
  \cup Fields({"Socketcall"}, "call", "Int32", "socketcall")
  \cup Fields({"Socket"}, "domain", "Int32", "socketDomain")
  \cup Fields({"SecuritySocketCreate", "SecuritySocketConnect"}, "family", "Int32", "socketDomain")
  \cup Fields({"Socket", "SecuritySocketCreate", "SecuritySocketConnect"}, "type", "Int32",
              "socketType")

FileAndProgramFields ==
  Fields({"Access", "Faccessat"}, "mode", "Int32", "accessMode")
  \cup Fields({"Faccessat"}, "flags", "Int32", "faccessatFlag")
  \cup Fields({"Execveat"}, "flags", "Int32", "execveatFlag")
  \cup Fields({"Open", "Openat", "SecurityFileOpen"}, "flags", "Int32", "openFlags")
  \cup Fields({"Mknod", "Mknodat", "SecurityInodeMknod", "Chmod", "Fchmod", "Fchmodat", "ChmodCommon"},
           "mode", "UInt32", "inodeMode")
  \cup Fields({"Fchmodat"}, "flags", "Int32", "fchmodatFlag")
  \cup Fields({"Clone"}, "flags", "UInt64", "cloneFlags")
  \cup Fields({"Bpf", "SecurityBPF"}, "cmd", "Int32", "bpfCmd")
  \cup Fields({"SecurityKernelReadFile", "SecurityKernelPostReadFile"}, "type", "Int32",
              "kernelReadType")
  \cup Fields({"SchedProcessExec"}, "stdin_type", "UInt32", "inodeMode")
  \cup Fields({"DirtyPipeSplice"}, "in_file_type", "UInt32", "inodeMode")
  \cup Fields({"SecuritySocketSetsockopt", "Setsockopt", "Getsockopt"}, "level", "Int32", "socketLevel")
  \cup Fields({"SecuritySocketSetsockopt", "Setsockopt"}, "optname", "Int32", "setSocketOption")
  \cup Fields({"Getsockopt"}, "optname", "Int32", "getSocketOption")
  \cup Fields({"BpfAttach"}, "prog_type", "Int32", "bpfProgType")
  \cup Fields({"BpfAttach"}, "prog_helpers", "UInt64Array", "bpfHelpers")
  \cup Fields({"BpfAttach"}, "attach_type", "Int32", "bpfAttachType")
  \cup Fields({"SecurityBpfProg"}, "type", "Int32", "bpfProgType")
  \cup Fields({"SecurityBpfProg"}, "helpers", "UInt64Array", "bpfHelpers")
  \cup Fields({"SecurityPathNotify"}, "mask", "UInt64", "fsNotifyMask")
  \cup Fields({"SecurityPathNotify"}, "obj_type", "UInt32", "fsNotifyObjType")
  \cup Fields({"SuspiciousSyscallSource", "StackPivot"}, "vma_flags", "UInt64", "vmFlags")
  \cup Fields({"Setns"}, "nstype", "Int32", "namespaceType")

ParsedFields == MemoryAndSocketFields \cup FileAndProgramFields

(* The parsers only other packages call; the kernel decides which of the   *)
(* two of the GUP flags.                                                   *)
CalledElsewhere ==
  {<<"", "", "UInt64", p>> : p \in {"ioUringSetup", "ioUringOp", "ioUringRequest", "gupFlags",
                                    "legacyGupFlags"}}

MaskParsers == {"cloneFlags", "openFlags", "accessMode", "faccessatFlag", "fchmodatFlag",
                "execveatFlag", "socketType", "inodeMode", "mmapProt", "mmapFlags", "namespaceType",
                "ioUringSetup", "ioUringRequest", "gupFlags", "legacyGupFlags", "vmFlags",
                "fsNotifyMask", "bpfHelpers"}

(* uint64(v) of an int32 extends the sign.                                 *)
Widen(type, parser, v) ==
  IF type = "Int32" /\ parser \in MaskParsers THEN (IF 31 \in v THEN v \cup 32 .. 63 ELSE v) ELSE v

ParseMask(arch, parser, raw) ==
  CASE parser = "cloneFlags" -> ParseCloneFlags(raw)
    [] parser = "openFlags" -> ParseOpenFlagArgument(arch, raw)
    [] parser = "accessMode" -> ParseAccessMode(raw)
    [] parser = "faccessatFlag" -> ParseFaccessatFlag(raw)
    [] parser = "fchmodatFlag" -> ParseFchmodatFlag(raw)
    [] parser = "execveatFlag" -> ParseExecveatFlag(raw)
    [] parser = "socketType" -> ParseSocketType(raw)
    [] parser = "inodeMode" -> ParseInodeMode(raw)
    [] parser = "mmapProt" -> ParseMmapProt(raw)
    [] parser = "mmapFlags" -> ParseMmapFlags(raw)
    [] parser = "namespaceType" -> ParseNamespaceType(raw)
    [] parser = "ioUringSetup" -> ParseIoUringSetupFlags(raw)
    [] parser = "ioUringRequest" -> ParseIoUringRequestFlags(raw)
    [] parser = "gupFlags" -> ParseGUPFlags(raw)
    [] parser = "legacyGupFlags" -> ParseLegacyGUPFlags(raw)
    [] parser = "vmFlags" -> ParseVmFlags(raw)
    [] parser = "fsNotifyMask" -> ParseFsNotifyMask(raw)
    [] parser = "bpfHelpers" -> parseBpfHelpersUsage(raw)

ParseNumber(arch, parser, n) ==
  CASE parser = "capability" -> ParseCapability(n)
    [] parser = "prctlOption" -> ParsePrctlOption(n)
    [] parser = "bpfCmd" -> ParseBPFCmd(n)
    [] parser = "ptraceRequest" -> ParsePtraceRequestArgument(arch, n)
    [] parser = "socketcall" -> ParseSocketcallCall(n)
    [] parser = "socketDomain" -> ParseSocketDomainArgument(n)
    [] parser = "socketLevel" -> ParseSocketLevel(n)
    [] parser = "setSocketOption" -> ParseSetSocketOption(n)
    [] parser = "getSocketOption" -> ParseGetSocketOption(n)
    [] parser = "bpfProgType" -> ParseBPFProgType(n)
    [] parser = "bpfAttachType" -> parseBpfAttachType(n)
    [] parser = "memProtAlert" -> MemProtAlertString(n)
    [] parser = "kernelReadType" -> KernelReadTypeString(n)
    [] parser = "ioUringOp" -> ParseIoUringOp(n)
    [] parser = "fsNotifyObjType" -> ParseFsNotifyObjType(n)

-----------------------------------------------------------------------------
ParserInit ==
  /\ argRow \in {<<f[1], f[2], f[3], f[4], arch>> :
                  f \in ParsedFields \cup CalledElsewhere, arch \in {"amd64", "arm64"}}
  /\ argRaw \in FieldValues(argRow[5], argRow[4])
  /\ argText = Unparsed

ParseDataFields ==
  /\ argText = Unparsed
  /\ argRaw' = Widen(argRow[3], argRow[4], argRaw)
  /\ argText' = IF argRow[4] \in MaskParsers THEN ParseMask(argRow[5], argRow[4], argRaw')
                                             ELSE ParseNumber(argRow[5], argRow[4], argRaw')
  /\ UNCHANGED argRow

-----------------------------------------------------------------------------
(* The constants a parser's field may hold: flags and their bits, or names *)
(* and their numbers.                                                      *)
RowsOf(seq) == {seq[i] : i \in DOMAIN seq}

FlagsOf(arch, parser) ==
  CASE parser = "cloneFlags" -> RowsOf(cloneFlagsValues)
    [] parser = "openFlags" -> RowsOf(openAccessModes) \cup RowsOf(openFlagsValues(arch))
    [] parser = "accessMode" -> RowsOf(accessModeValues)
    [] parser = "faccessatFlag" -> RowsOf(faccessatFlagsValues)
    [] parser = "fchmodatFlag" -> RowsOf(fchmodatFlagsValues)
    [] parser = "execveatFlag" -> RowsOf(execveAtFlagsValues)
    [] parser = "socketType" -> RowsOf(socketTypeMap) \cup RowsOf(socketTypeFlags)
    [] parser = "inodeMode" -> RowsOf(inodeTypes) \cup RowsOf(inodeAll) \cup RowsOf(inodePermissions)
    [] parser = "mmapProt" -> RowsOf(mmapProtArgs)
    [] parser = "mmapFlags" -> {r \in RowsOf(mmapFlagMap) : Cardinality(r.bits) = 1}
    [] parser = "namespaceType" -> RowsOf(namespaceTypeValues)
    [] parser = "ioUringSetup" -> RowsOf(ioUringSetupFlagMap)
    [] parser = "ioUringRequest" -> RowsOf(ioUringRequestFlagMap)
    [] parser = "gupFlags" -> RowsOf(GUPFlagMap)
    [] parser = "legacyGupFlags" -> RowsOf(LegacyGUPFlagMap)
    [] parser = "vmFlags" -> RowsOf(VmFlagMap)
    [] parser = "fsNotifyMask" -> RowsOf(FsNotifyMaskMap)
    [] parser = "bpfHelpers" -> {Bit(r.number, r.name) : r \in RowsOf(bpfFuncsMap)}

NumbersOf(arch, parser) ==
  CASE parser = "capability" -> RowsOf(capabilityValues)
    [] parser = "prctlOption" -> RowsOf(prctlOptionValues)
    [] parser = "bpfCmd" -> RowsOf(bpfCmdValues)
    [] parser = "ptraceRequest" -> RowsOf(ptraceRequestValues(arch))
    [] parser = "socketcall" -> RowsOf(sysNetValues)
    [] parser = "socketDomain" -> RowsOf(socketDomainValues)
    [] parser = "socketLevel" -> RowsOf(socketLevelMap)
    [] parser = "setSocketOption" -> RowsOf(setSocketOptionMap)
    [] parser = "getSocketOption" -> RowsOf(getSocketOptionMap)
    [] parser = "bpfProgType" -> RowsOf(bpfProgTypeMap)
    [] parser = "bpfAttachType" -> {Num(i - 1, attachTypes[i]) : i \in 1 .. 6}
    [] parser = "memProtAlert" -> {Num(i - 1, alerts[i]) : i \in 2 .. 5}
    [] parser = "kernelReadType" -> {Num(i - 1, readTypes[i]) : i \in 1 .. 7}
    [] parser = "ioUringOp" -> RowsOf(ioUringOpMap)
    [] parser = "fsNotifyObjType" -> RowsOf(fsNotifyObjTypeMap)

BitsOf(rows) == UNION {r.bits : r \in rows}

(* The two values the parsers do not carry over: the flag of bit 15 of an  *)
(* io_uring request, declared past the last bit that is looked at, and     *)
(* call 0 of socketcall, below the first of the list.                      *)
Lost == \/ argRow[4] = "ioUringRequest" /\ 15 \in argRaw
        \/ argRow[4] = "socketcall" /\ argRaw = 0

(* Parsing loses and invents nothing: the names a mask is spelled with are *)
(* names of flags which together are the known bits of the mask, however   *)
(* flags overlap and in whatever order they are looked up; the page size   *)
(* of an mmap is the one its six bits encode; and a value of an            *)
(* enumeration gets the name declared for it, or stays a number.           *)
ParsedWhole ==
  argText # Unparsed /\ ~Lost =>
    LET said == {argText.names[i] : i \in DOMAIN argText.names}
        power == NumberIn(argRaw, 26, 31)
    IN  IF argRow[4] \in MaskParsers
        THEN LET flags == FlagsOf(argRow[5], argRow[4])
             IN  /\ BitsOf({r \in flags : r.name \in said}) = argRaw \cap BitsOf(flags)
                 /\ Cardinality(said) = Len(argText.names)
                 /\ argRow[4] = "mmapFlags" =>
                      IF power = 0 THEN argText.page = <<>>
                      ELSE \E e \in 0 .. 9 : argText.page[1] = 2 ^ e /\ power = e + 10 * argText.page[2]
        ELSE LET rows == {r \in NumbersOf(argRow[5], argRow[4]) : r.number = argRaw}
             IN  IF rows # {} THEN {r.name : r \in rows} = said
                 ELSE argText = Number \/ said \subseteq {"Unknown alert", "unknown"}
=============================================================================
