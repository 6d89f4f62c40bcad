------------------------------- MODULE Layout -------------------------------
(***************************************************************************)
(* Where a number of a node's information lies.  infod writes it through a *)
(* C structure (struct mosix_infod_data) whose place of every member the   *)
(* compiler chooses, with padding; a reader finds it through the           *)
(* description infod serves, an XML list of names and types whose offsets  *)
(* _create_info_mapping obtains by adding the sizes up, without padding.   *)
(* The two agree only as long as the members happen to need no padding and *)
(* the list follows the structure, name by name.                           *)
(***************************************************************************)
EXTENDS Integers, Sequences, SequencesExt

\* struct mosix_extra_data, what infod measures itself
mosix_extra_data == <<
  <<"tmem", "unsigned long">>, <<"tswap", "unsigned long">>, <<"fswap", "unsigned long">>,
  <<"uptime", "unsigned long">>, <<"disk_read_rate", "unsigned int">>,
  <<"disk_write_rate", "unsigned int">>, <<"net_rx_rate", "unsigned int">>,
  <<"net_tx_rate", "unsigned int">>, <<"tdisk", "unsigned long">>, <<"fdisk", "unsigned long">>,
  <<"locals", "int">>, <<"guests", "int">>, <<"maxguests", "int">>, <<"kernel_version", "unsigned int">>,
  <<"total_freeze", "unsigned int">>, <<"free_freeze", "unsigned int">>,
  <<"machine_arch", "unsigned char">>, <<"io_wait_percent", "unsigned char">>,
  <<"unused_2", "unsigned short">>, <<"unused_3", "int">>, <<"unused_4", "int">>,
  <<"unused_5", "int">>, <<"rpc_ops", "unsigned long">> >>

\* struct mosix_data, the part laid out after the kernel's load message
mosix_data(word) == <<
  <<"freepages", "unsigned long">>, <<"totpages", "unsigned long">>, <<"load", "unsigned int">>,
  <<"speed", "unsigned int">>, <<"ignore_1", "int">>, <<"status", "unsigned short">>,
  <<"level", "unsigned short">>, <<"frozen", "unsigned short">>, <<"util", "unsigned char">>,
  <<"ncpus", "unsigned char">>, <<"nproc", "unsigned short">>, <<"token_level", "unsigned short">>,
  <<"edgepages", "unsigned long">>, <<"availpages", "unsigned long">>, <<"batches", "unsigned short">>,
  <<"ignore_2", "unsigned short">>, <<"totswap", "unsigned short">>, <<"freeswap", "unsigned short">> >>
  \o (IF word = 8 THEN <<>> ELSE [i \in 1..4 |-> <<"pad", "int">>])

\* the fixed part of the description, in the order mosix_sf_get_infodesc writes it
mosix_sf_get_infodesc == <<
  <<"tmem", "unsigned long">>, <<"tswap", "unsigned long">>, <<"fswap", "unsigned long">>,
  <<"uptime", "unsigned long">>, <<"disk_read_rate", "unsigned int">>,
  <<"disk_write_rate", "unsigned int">>, <<"net_rx_rate", "unsigned int">>,
  <<"net_tx_rate", "unsigned int">>, <<"tdisk", "unsigned long">>, <<"fdisk", "unsigned long">>,
  <<"locals", "int">>, <<"guests", "int">>, <<"maxguests", "int">>, <<"mosix_version", "int">>,
  <<"total_freeze", "unsigned int">>, <<"free_freeze", "unsigned int">>,
  <<"arch_size", "unsigned char">>, <<"iowait", "unsigned char">>,
  <<"extra_unused_2", "unsigned short">>, <<"extra_unused_3", "int">>, <<"extra_unused_4", "int">>,
  <<"extra_unused_5", "int">>, <<"nfs_client_rpc_rate", "unsigned long">>,
  <<"freepages", "unsigned long">>, <<"totalpages", "unsigned long">>, <<"load", "unsigned int">>,
  <<"speed", "unsigned int">>, <<"not_used_1", "int">>, <<"status", "unsigned short">>,
  <<"level", "unsigned short">>, <<"frozen", "unsigned short">>, <<"util", "unsigned char">>,
  <<"ncpus", "unsigned char">>, <<"nproc", "unsigned short">>, <<"token_level", "unsigned short">>,
  <<"edgepages", "unsigned long">>, <<"not_used_2", "unsigned long">>, <<"baches", "unsigned short">>,
  <<"pad0", "int">>, <<"pad1", "int">>, <<"pad2", "int">>, <<"pad3", "int">>, <<"pad4", "int">> >>

\* the name by which the description calls a member of the structure
Called == [kernel_version |-> "mosix_version", machine_arch |-> "arch_size", io_wait_percent |-> "iowait",
           rpc_ops |-> "nfs_client_rpc_rate", totpages |-> "totalpages", batches |-> "baches"]
Name(member) == IF member \in DOMAIN Called THEN Called[member] ELSE member

\* the size of a type on a machine whose words have `word` bytes
SizeOf(type, word) == CASE type = "unsigned long" -> word
                        [] type \in {"int", "unsigned int"} -> 4
                        [] type = "unsigned short" -> 2
                        [] type = "unsigned char" -> 1

-----------------------------------------------------------------------------
(* The compiler: every member starts at a multiple of its size, the second *)
(* structure at a multiple of a word, and the end is padded to a word.     *)
Aligned(n, size) == ((n + size - 1) \div size) * size

\* where the members of a structure that starts at `from` begin, and where it ends
Placed(members, from, word) ==
  FoldLeft(LAMBDA acc, m : LET at == Aligned(acc.end, SizeOf(m[2], word)) IN
             [end |-> at + SizeOf(m[2], word),
              at |-> Append(acc.at, [name |-> Name(m[1]), offset |-> at, size |-> SizeOf(m[2], word)])],
           [end |-> from, at |-> <<>>], members)

\* struct mosix_infod_data, the two structures one after the other
mosix_infod_data(word) ==
  LET extra == Placed(mosix_extra_data, 0, word)
      data == Placed(mosix_data(word), Aligned(extra.end, word), word)
  IN  [at |-> extra.at \o data.at, end |-> Aligned(data.end, word)]

-----------------------------------------------------------------------------
(* The reader: offsets are running sums of sizes; a variable is found by   *)
(* its name (get_var_desc), the first of that name.                        *)
create_info_mapping(desc, word) ==
  FoldLeft(LAMBDA acc, v : [end |-> acc.end + SizeOf(v[2], word),
                            at |-> Append(acc.at, [name |-> v[1], offset |-> acc.end, size |-> SizeOf(v[2], word)])],
           [end |-> 0, at |-> <<>>], desc)

Described(name, map) == \E i \in 1..Len(map.at) : map.at[i].name = name
get_var_desc(map, name) == map.at[SelectInSeq(map.at, LAMBDA v : v.name = name)]
=============================================================================
