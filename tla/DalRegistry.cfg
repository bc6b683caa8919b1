\* One thread's calls of install_DAL() and get_DAL() in every order, with
\* a table of five entries, so that three application DALs leave no room for POSIX.
CONSTANTS
  AppDals <- MCAppDals
  Names <- MCNames
  MaxDal = 5
  Asserts = TRUE
SPECIFICATION Spec
INVARIANTS TypeOK NamesUnique
PROPERTIES GetDalAnswer BuiltinsServed
\* A failed assert() ends the process: no step follows it.
CHECK_DEADLOCK FALSE
