--------------------------- MODULE MCPythonRuntime ----------------------------
(* Instances of the Python wrapper for TLC: files "d" and "f" of a few bytes. *)
EXTENDS PythonRuntime, TLC

Sizes == [d |-> 8, f |-> 4]

tensor(op, o, nbytes, shape, dtype) ==
    [op |-> op, path |-> "f", off |-> o, nbytes |-> nbytes, shape |-> shape, dtype |-> dtype,
     contiguous |-> TRUE]

Calls ==
    {tensor("load_tensor", 0, 2, NoShape, "float16"), tensor("load_tensor", 1, 3, NoShape, "float16"),
     tensor("load_tensor", 0, None, <<1, 2>>, "float16"), tensor("load_tensor", 0, 4, <<2>>, "uint8"),
     tensor("load_tensor", 2, None, <<4>>, "float32"), tensor("load_tensor", 0, None, NoShape, "uint8"),
     tensor("read_into_tensor", 2, None, <<1>>, "float16"),
     [tensor("read_into_tensor", 2, None, <<1>>, "float16") EXCEPT !.contiguous = FALSE]}
    \cup [op : {"getitem"}, idx : 1..3]
    \cup [op : {"load_chunks"}, path : {"f"}, offsets : {<<0, 2>>}, lengths : {<<2, 2>>, <<2, 3>>, <<2>>}]

line(n, path, off, size) == [n |-> n, path |-> path, off |-> off, size |-> size, label |-> 1]

opened(lines, data_file, shape, dtype) ==
    [lines |-> lines, data_file |-> data_file, shape |-> shape, dtype |-> dtype]

BothForms == <<line(5, "f", 0, 4), line(0, "", 0, 0), line(4, "", 4, 4)>>

Datasets ==
    {opened(BothForms, "d", NoShape, "uint8"), opened(BothForms, "d", <<2>>, "float16"),
     opened(BothForms, "d", <<3>>, "uint8"),                                           \* shorter
     opened(<<line(4, "", 6, 4), line(5, "g", 0, 1)>>, "d", NoShape, "uint8"),         \* not there
     opened(<<line(5, "f", 2, 2)>>, NoPath, NoShape, "float16"),
     opened(BothForms, NoPath, NoShape, "uint8"),                                      \* refused
     opened(<<line(3, "", 0, 1)>>, "d", NoShape, "uint8"), opened(<<line(5, "f", 0, 0)>>, "d", NoShape, "uint8")}

Symmetric == Permutations(Thread)
=============================================================================
