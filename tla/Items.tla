------------------------------- MODULE Items --------------------------------
(***************************************************************************)
(* The display modules of the monitor (mmon/DisplayModules): what each     *)
(* takes out of a node's information, where it puts it in the node's block *)
(* of the raw data, and what it draws from there.  A block is the cells of *)
(* all modules side by side in the order of their registration; nothing    *)
(* but the modules' own arithmetic keeps one out of its neighbour's cell,  *)
(* and nothing but names and widths written by hand ties what it reads to  *)
(* what infod wrote.                                                       *)
(*                                                                         *)
(* A module is a record: the cell's size (bytes and words), the reads (the *)
(* fields a read tests before it goes on, the field, the bytes taken and   *)
(* kept, the bytes put into the cell), the strings (offset in words, name),*)
(* further bytes written, whether it is a scalar, the bytes its scalar and *)
(* its drawing look at, what it draws and whether it is drawn reversed.    *)
(***************************************************************************)
EXTENDS Layout, FiniteSets, TLC

CONSTANTS Word,      \* the bytes of a word of the machine
          Plugins    \* the sizes of the cells of the plug-ins registered last

ASSUME WordAssumption == Word \in {4, 8}

\* a size given as WordSized is that of a word
WordSized == 0
Bytes(n) == IF n = WordSized THEN Word ELSE n

\* the bytes from `at` on that something of this size takes
Span(at, size) == at .. (at + Bytes(size) - 1)

\* a module that stores and draws nothing; the others say where they differ
Blank == [bytes |-> 0, words |-> 0, scalar |-> FALSE, reads |-> {}, strings |-> {},
          writes |-> {}, looks |-> {}, draws |-> "nothing"]

\* take `take` bytes of a field, put `put` bytes at `at` in the cell, once `tests` are described
Read(tests, field, take, at, put) ==
  [tests |-> tests, field |-> field, take |-> take, kept |-> take, at |-> at, put |-> put]

name_mod_info ==
  [bytes |-> 24, writes |-> {<<0, 24>>}, looks |-> {<<0, 24>>}, draws |-> "text"] @@ Blank

num_mod_info ==
  [bytes |-> 4, scalar |-> TRUE, writes |-> {<<0, 4>>}, looks |-> {<<0, 4>>}, draws |-> "bar"] @@ Blank

space_mod_info ==
  Blank

status_mod_info ==
  [bytes |-> 2 + 24, writes |-> {<<2, 24>>, <<4 + 24 - 1, 1>>}, looks |-> {<<0, 2>>, <<2, 24>>}, draws |-> "text",
   reads |-> {Read({"status"}, "status", 2, 0, 2)}] @@ Blank

infod_status_mod_info ==
  [bytes |-> 4, scalar |-> TRUE, writes |-> {<<0, 4>>}, looks |-> {<<0, 4>>}, draws |-> "bar"] @@ Blank

version_mod_info ==
  [bytes |-> 4, looks |-> {<<0, 4>>}, draws |-> "text",
   reads |-> {Read({"mosix_version"}, "mosix_version", 4, 0, 4)}] @@ Blank

kernel_version_mod_info ==
  [words |-> 1, strings |-> {<<0, "kernel-version">>}, looks |-> {<<0, WordSized>>}, draws |-> "text"] @@ Blank

uptime_mod_info ==
  [words |-> 1, looks |-> {<<0, WordSized>>}, draws |-> "text",
   reads |-> {Read({"uptime"}, "uptime", WordSized, 0, WordSized)}] @@ Blank

load_mod_info ==
  [bytes |-> 4 + 2 + 2, words |-> 1, scalar |-> TRUE, strings |-> {<<8, "usedby">>}, writes |-> {<<6, 2>>},
   looks |-> {<<0, 4>>, <<4, 2>>, <<6, 2>>, <<8, WordSized>>}, draws |-> "bar",
   reads |-> {Read({"load", "level"}, "load", 4, 0, 4), Read({"load", "level"}, "level", 2, 4, 2)}] @@ Blank

load_val_mod_info ==
  [bytes |-> 4, scalar |-> TRUE, looks |-> {<<0, 4>>}, draws |-> "text",
   reads |-> {Read({"load"}, "load", 4, 0, 4)}] @@ Blank

frozen_mod_info ==
  [bytes |-> 4, scalar |-> TRUE, looks |-> {<<0, 4>>}, draws |-> "bar",
   reads |-> {Read({"frozen"}, "frozen", 2, 0, 4), Read({"frozen"}, "ncpus", 1, 0, 4)}] @@ Blank

\* mutant: the cell is sized without the level
load2_mod_info_Short ==
  [bytes |-> 4 + 4, scalar |-> TRUE, looks |-> {<<0, 4>>, <<4, 4>>, <<8, 2>>}, draws |-> "part",
   reads |-> LET tests == {"load", "frozen", "ncpus"} IN
             {Read(tests, "load", 4, 4, 4), Read(tests, "frozen", 2, 0, 4),
              Read(tests, "ncpus", 1, 0, 4), Read(tests, "level", 2, 8, 2)}] @@ Blank
load2_mod_info ==
  [bytes |-> 4 + 4 + 2, scalar |-> TRUE, looks |-> {<<0, 4>>, <<4, 4>>, <<8, 2>>}, draws |-> "part",
   reads |-> LET tests == {"load", "frozen", "ncpus"} IN
             {Read(tests, "load", 4, 4, 4), Read(tests, "frozen", 2, 0, 4),
              Read(tests, "ncpus", 1, 0, 4), Read(tests, "level", 2, 8, 2)}] @@ Blank

mem_mod_info ==
  [bytes |-> 4 + 4, scalar |-> TRUE, looks |-> {<<0, 4>>, <<4, 4>>}, draws |-> "part",
   reads |-> {Read({"tmem", "freepages"}, "tmem", WordSized, 0, 4), Read({"tmem", "freepages"}, "freepages", WordSized, 4, 4)}] @@ Blank

swap_mod_info ==
  [bytes |-> 4 + 4, scalar |-> TRUE, looks |-> {<<0, 4>>, <<4, 4>>}, draws |-> "part",
   reads |-> {Read({"tswap", "fswap"}, "tswap", WordSized, 0, 4), Read({"tswap", "fswap"}, "fswap", WordSized, 4, 4)}] @@ Blank

disk_mod_info ==
  [bytes |-> 4 + 4, scalar |-> TRUE, looks |-> {<<0, 4>>, <<4, 4>>}, draws |-> "part",
   reads |-> {Read({"tdisk", "fdisk"}, "tdisk", WordSized, 0, 4), Read({"tdisk", "fdisk"}, "fdisk", WordSized, 4, 4)}] @@ Blank

freeze_space_mod_info ==
  [words |-> 1, scalar |-> TRUE, strings |-> {<<0, "freeze-info">>}, looks |-> {<<0, WordSized>>}, draws |-> "part"] @@ Blank

freeze_space_val_mod_info ==
  [words |-> 1, scalar |-> TRUE, strings |-> {<<0, "freeze-info">>}, looks |-> {<<0, WordSized>>}, draws |-> "text"] @@ Blank

grid_mod_info ==
  [bytes |-> 3 * 4 + 2, looks |-> {<<0, 4>>, <<4, 4>>, <<8, 4>>, <<12, 2>>}, draws |-> "text",
   reads |-> {Read({"locals"}, "locals", 4, 0, 4), Read({"guests"}, "guests", 4, 4, 4),
              Read({"maxguests"}, "maxguests", 4, 8, 4),
              [Read({"level"}, "level", 4, 12, 2) EXCEPT !.kept = 2]}] @@ Blank

\* mutant: the level of a token is taken for an int
token_mod_info_Int ==
  [bytes |-> 2 + 2, looks |-> {<<0, 2>>, <<2, 2>>}, draws |-> "text",
   reads |-> {Read({"status"}, "status", 2, 0, 2), Read({"status"}, "token_level", 4, 2, 2)}] @@ Blank
token_mod_info ==
  [bytes |-> 2 + 2, looks |-> {<<0, 2>>, <<2, 2>>}, draws |-> "text",
   reads |-> {Read({"status"}, "status", 2, 0, 2), Read({"status"}, "token_level", 2, 2, 2)}] @@ Blank

speed_mod_info ==
  [bytes |-> 4 + 1, scalar |-> TRUE, looks |-> {<<0, 4>>, <<4, 1>>}, draws |-> "bar",
   reads |-> {Read({"speed"}, "speed", 4, 0, 4), Read({"ncpus"}, "ncpus", 1, 4, 1)}] @@ Blank

ncpus_mod_info ==
  [bytes |-> 1, scalar |-> TRUE, looks |-> {<<0, 4>>},
   reads |-> {Read({"ncpus"}, "ncpus", 1, 0, 1)}] @@ Blank

util_mod_info ==
  [bytes |-> 1, scalar |-> TRUE, looks |-> {<<0, 1>>}, draws |-> "bar",
   reads |-> {Read({"util"}, "util", 1, 0, 1)}] @@ Blank

iowait_mod_info ==
  [bytes |-> 1, scalar |-> TRUE, looks |-> {<<0, 1>>}, draws |-> "bar",
   reads |-> {Read({"iowait"}, "iowait", 1, 0, 1)}] @@ Blank

rio_mod_info ==
  [bytes |-> 4, scalar |-> TRUE, looks |-> {<<0, 4>>}, draws |-> "bar",
   reads |-> {Read({"disk_read_rate"}, "disk_read_rate", 4, 0, 4)}] @@ Blank

wio_mod_info ==
  [bytes |-> 4, scalar |-> TRUE, looks |-> {<<0, 4>>}, draws |-> "bar",
   reads |-> {Read({"disk_write_rate"}, "disk_write_rate", 4, 0, 4)}] @@ Blank

tio_mod_info ==
  [bytes |-> 4, scalar |-> TRUE, looks |-> {<<0, 4>>}, draws |-> "bar",
   reads |-> {Read({"disk_read_rate", "disk_write_rate"}, "disk_read_rate", 4, 0, 4),
              Read({"disk_read_rate", "disk_write_rate"}, "disk_write_rate", 4, 0, 4)}] @@ Blank

net_in_mod_info ==
  [bytes |-> 4, scalar |-> TRUE, looks |-> {<<0, 4>>}, draws |-> "bar",
   reads |-> {Read({"net_rx_rate"}, "net_rx_rate", 4, 0, 4)}] @@ Blank

net_out_mod_info ==
  [bytes |-> 4, scalar |-> TRUE, looks |-> {<<0, 4>>}, draws |-> "bar",
   reads |-> {Read({"net_tx_rate"}, "net_tx_rate", 4, 0, 4)}] @@ Blank

net_total_mod_info ==
  [bytes |-> 4, scalar |-> TRUE, looks |-> {<<0, 4>>}, draws |-> "bar",
   reads |-> {Read({"net_rx_rate", "net_tx_rate"}, "net_rx_rate", 4, 0, 4),
              Read({"net_rx_rate", "net_tx_rate"}, "net_tx_rate", 4, 0, 4)}] @@ Blank

nfs_rpc_mod_info ==
  [bytes |-> 4, scalar |-> TRUE, looks |-> {<<0, 4>>}, draws |-> "bar",
   reads |-> {Read({"nfs_client_rpc_rate"}, "nfs_client_rpc_rate", 4, 0, 4)}] @@ Blank

using_clusters_mod_info ==
  [words |-> 2, strings |-> {<<0, "usedby">>, <<Word, "proc-watch">>},
   looks |-> {<<0, WordSized>>, <<Word, WordSized>>}, draws |-> "text"] @@ Blank

using_users_mod_info ==
  [words |-> 2, strings |-> {<<0, "usedby">>, <<Word, "proc-watch">>},
   looks |-> {<<0, WordSized>>, <<Word, WordSized>>}, draws |-> "text"] @@ Blank

infod_debug_mod_info ==
  [words |-> 1, strings |-> {<<0, "infod-debug">>}, looks |-> {<<0, WordSized>>}, draws |-> "text"] @@ Blank

cluster_id_mod_info ==
  [bytes |-> 1, scalar |-> TRUE, writes |-> {<<0, 1>>}, looks |-> {<<0, 1>>}] @@ Blank

eco_info_mod_info ==
  [words |-> 2, scalar |-> TRUE, strings |-> {<<0, "economy-status">>, <<Word, "proc-watch">>},
   looks |-> {<<0, WordSized>>, <<Word, WordSized>>}, draws |-> "part"] @@ Blank

seperator_mod_info ==
  [draws |-> "text"] @@ Blank

\* a plug-in writes its own cell and nothing else
Plugin(size) == [bytes |-> size, writes |-> {<<0, size>>}] @@ Blank

\* in the order of their registration, the plug-ins last
displayModule_registerStandardModules ==
  << name_mod_info, num_mod_info, status_mod_info, infod_status_mod_info,
     kernel_version_mod_info, version_mod_info, uptime_mod_info, load_mod_info,
     load_val_mod_info, frozen_mod_info, load2_mod_info, mem_mod_info, swap_mod_info,
     disk_mod_info, freeze_space_mod_info, freeze_space_val_mod_info, grid_mod_info,
     token_mod_info, speed_mod_info, util_mod_info, iowait_mod_info, rio_mod_info,
     wio_mod_info, tio_mod_info, net_in_mod_info, net_out_mod_info, net_total_mod_info,
     nfs_rpc_mod_info, using_clusters_mod_info, using_users_mod_info, infod_debug_mod_info,
     cluster_id_mod_info, eco_info_mod_info, ncpus_mod_info, seperator_mod_info,
     space_mod_info >>

Modules == displayModule_registerStandardModules \o [i \in 1..Len(Plugins) |-> Plugin(Plugins[i])]

-----------------------------------------------------------------------------
(* The block of a node: the cells side by side.                            *)
get_length(m) == m.bytes + Word * m.words

\* the first byte of a module's cell (pos_map)
pos_map == [i \in 1..(Len(Modules) + 1) |-> FoldLeft(LAMBDA n, m : n + get_length(m), 0, SubSeq(Modules, 1, i - 1))]
get_pos(i) == pos_map[i]
block_length == get_pos(Len(Modules) + 1)

\* the bytes of the block that a module's new_item writes, and those of its cell
new_item(i) ==
  LET m == Modules[i]
      spans == m.writes \union {<<s[1], WordSized>> : s \in m.strings} \union {<<r.at, r.put>> : r \in m.reads}
  IN  {get_pos(i) + b : b \in UNION {Span(w[1], w[2]) : w \in spans}}
Looked(i) == {get_pos(i) + b : b \in UNION {Span(w[1], w[2]) : w \in Modules[i].looks}}
Cell(i) == get_pos(i) .. (get_pos(i) + get_length(Modules[i]) - 1)

\* the map of a node's information infod's description gives, and where it really is
info_map == create_info_mapping(mosix_sf_get_infodesc, Word)
written == mosix_infod_data(Word)

-----------------------------------------------------------------------------
(* What a column shows is what infod measured under that name: whenever    *)
(* the fields a read tests are described, the field it takes is described  *)
(* too, at the place and with the size it has in infod's structure, the    *)
(* bytes it takes are part of the information and those it keeps belong to *)
(* that field.  A member added on one side only, a padding byte or a cast  *)
(* to the wrong type shows another number, or reads a node's memory.       *)
ItemsReadRight ==
  \A i \in 1..Len(Modules) : \A r \in Modules[i].reads :
    (\A t \in r.tests : Described(t, info_map)) =>
      /\ Described(r.field, info_map) /\ Described(r.field, written)
      /\ LET d == get_var_desc(info_map, r.field)
             s == get_var_desc(written, r.field)
         IN  /\ d.offset = s.offset /\ d.size = s.size
             /\ d.offset + Bytes(r.take) <= written.end
             /\ Bytes(r.kept) <= d.size

(* After a pass of all modules over a node, every byte of its block holds  *)
(* what its own module put there: no later module writes over it, none     *)
(* leaves the block, and each looks at its own cell only.  The status      *)
(* module ends its name two bytes too far, in the cell of the next module, *)
(* which is written right afterwards; the number of processors, one byte,  *)
(* is looked at as a float of four when its column is scaled, and is left  *)
(* out here.                                                               *)
CellsKeepApart ==
  /\ \A i, j \in 1..Len(Modules) : i < j => new_item(j) \intersect (new_item(i) \intersect Cell(i)) = {}
  /\ \A i \in 1..Len(Modules) : /\ new_item(i) \subseteq 0..(block_length - 1)
                                /\ Modules[i] # ncpus_mod_info => Looked(i) \subseteq Cell(i)
=============================================================================
