----------------------------- MODULE SymbolTable -----------------------------
(***************************************************************************)
(* lib/symbol_table.cpp: the locations of an address, the ids of functions *)
(* and files, and the callbacks that announce a new one.  What libbacktrace*)
(* and the dynamic linker know of an address is given by constants; a name *)
(* is a sequence of words, the empty one standing for none (NULL or "").   *)
(* Line numbers are carried along unread and left out.                     *)
(***************************************************************************)
EXTENDS Integers, SequencesExt

CONSTANTS Syminfo,  \* address -> symbol name, prettified
          Pcinfo,   \* address -> [file, function] of each inlined function
          Dladdr    \* address -> [sname, fname], or no names if dladdr fails

VARIABLES
    nextId_,
    knownAddrToLocations_,  \* address -> its locations
    knownMethodToIds_,      \* function name -> id
    knownFileToIds_         \* file name -> id

symbolVars == <<nextId_, knownAddrToLocations_, knownMethodToIds_, knownFileToIds_>>

NoName == << >>
Unknown == <<"Unknown">>

Known(f, key, value) == [x \in DOMAIN f \cup {key} |-> IF x = key THEN value ELSE f[x]]

SymbolInit ==
    /\ nextId_ = 1
    /\ knownAddrToLocations_ = << >>
    /\ knownMethodToIds_ = << >>
    /\ knownFileToIds_ = << >>

-----------------------------------------------------------------------------
(* A lookup takes the tables to new tables, the locations found and the    *)
(* messages its callbacks are called with, in order.                       *)

Tables == [nextId |-> nextId_, addrs |-> knownAddrToLocations_,
           methods |-> knownMethodToIds_, files |-> knownFileToIds_,
           locations |-> << >>, told |-> << >>]

\* The id of a file, a new one if it has none.
recordFile(st, fileName) ==
    IF fileName \in DOMAIN st.files THEN st
    ELSE [st EXCEPT !.nextId = @ + 1,
                    !.files = Known(@, fileName, st.nextId),
                    !.told = Append(@, [kind |-> "module", id |-> st.nextId,
                                        name |-> fileName, moduleId |-> 0])]

\* The fallbacks for a missing function name: syminfo's symbol, then what
\* dladdr knows, the binary at least, and Unknown.
FunctionName(pc, symbol, info) ==
    CASE info.function # NoName -> info.function
      [] info.function = NoName /\ symbol # NoName -> symbol
      [] OTHER -> CASE Dladdr[pc].sname # NoName -> Dladdr[pc].sname
                    [] Dladdr[pc].sname = NoName /\ Dladdr[pc].fname # NoName ->
                           <<"In">> \o Dladdr[pc].fname
                    [] OTHER -> Unknown

\* The file, or the binary in place of a file that is missing.
FileName(pc, info) == IF info.file # NoName THEN info.file ELSE Dladdr[pc].fname

\* The callback of backtrace_pcinfo, once for each function inlined at pc.
handlePcInfo(st, pc, symbol, info) ==
    LET file == FileName(pc, info)
        st1  == IF file = NoName THEN st ELSE recordFile(st, file)
        fileId == IF file = NoName THEN 0 ELSE st1.files[file]
        name == FunctionName(pc, symbol, info)
        st2  == IF name \in DOMAIN st1.methods THEN st1
                ELSE [st1 EXCEPT !.nextId = @ + 1,
                        !.methods = Known(@, name, st1.nextId),
                        !.told = Append(@, [kind |-> "method", id |-> st1.nextId,
                                            name |-> name, moduleId |-> fileId])]
    IN  [st2 EXCEPT !.locations = Append(@, [methodId |-> st2.methods[name],
                                             functionName |-> name])]

\* currentSymbolName_ when backtrace_pcinfo is called.
handleSyminfo(pc, isForeign) == IF isForeign THEN NoName ELSE Syminfo[pc]

\* lookup_locations: an address seen before costs no lookup.
lookup_locations(st, pc, isForeign) ==
    IF pc \in DOMAIN st.addrs THEN [st EXCEPT !.locations = st.addrs[pc]]
    ELSE LET found == FoldLeft(LAMBDA acc, info :
                                  handlePcInfo(acc, pc, handleSyminfo(pc, isForeign), info),
                               [st EXCEPT !.locations = << >>], Pcinfo[pc])
         IN  [found EXCEPT !.addrs = Known(@, pc, found.locations)]

\* The tables are as a lookup left them.
Update(st) ==
    /\ nextId_' = st.nextId
    /\ knownAddrToLocations_' = st.addrs
    /\ knownMethodToIds_' = st.methods
    /\ knownFileToIds_' = st.files

\* Mutant: the files are forgotten last, that is not at all.
clear_symbolsButFiles ==
    /\ knownAddrToLocations_' = << >>
    /\ knownMethodToIds_' = << >>
    /\ UNCHANGED <<nextId_, knownFileToIds_>>

\* The tables are emptied; the ids go on.
clear_symbols ==
    /\ knownAddrToLocations_' = << >>
    /\ knownMethodToIds_' = << >>
    /\ knownFileToIds_' = << >>
    /\ UNCHANGED nextId_

==============================================================================
