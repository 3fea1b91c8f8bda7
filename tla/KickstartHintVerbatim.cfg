\* The spec says a boot-drive hint wins verbatim; the tests truncate it.
SPECIFICATION Spec
INVARIANT HintVerbatim
