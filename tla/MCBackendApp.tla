---------------------------- MODULE MCBackendApp ----------------------------
(***************************************************************************)
(* Small instances of BackendApp for TLC: the strings, the rows the        *)
(* database starts with and the requests clients make in each run.         *)
(***************************************************************************)
EXTENDS BackendRefines, BackendInvariants

CONSTANTS empty, ann, bob, text, tooLong, student, teacher, cut

MCStr == {empty, ann, bob, text, tooLong, student, teacher, cut}

\* The string cut is text, followed by a NUL character and something more.
MCCStr == [x \in MCStr |-> IF x = cut THEN text ELSE x]

MCLong == {tooLong}
MCRoles == {student, teacher}

MCSymmetry == Permutations(Server) \cup Permutations(Request)

-----------------------------------------------------------------------------
(* Documents. *)

Object(members) == [type |-> "object", members |-> members]
Array(items) == [type |-> "array", items |-> items]
Scalar == [type |-> "scalar"]
Garbage == [type |-> "garbage"]

StudentDoc(name) ==
  Object([firstname |-> name, lastname |-> name, username |-> name,
          student_id |-> name, email |-> name, role |-> student])

\* As in docs/rest_api/samples/create_users.json: no student_id.
TeacherDoc(name) ==
  Object([firstname |-> name, lastname |-> name, username |-> name,
          email |-> name, role |-> teacher])

ModuleDoc(course) ==
  Object([title |-> text, description |-> text, course_id |-> course])

CourseDoc(owner, modules) ==
  Object([title |-> text, description |-> text, owner_id |-> owner,
          modules |-> modules])

Without(d, c) ==
  Object([n \in DOMAIN d.members \ {c} |-> d.members[n]])

With(d, c, v) ==
  Object([n \in DOMAIN d.members \cup {c} |->
            IF n = c THEN v ELSE d.members[n]])

Post(path, body) ==
  [path |-> path, method |-> "POST", arg |-> NULL, body |-> body]

Get(path, arg) ==
  [path |-> path, method |-> "GET", arg |-> arg, body |-> NULL]

-----------------------------------------------------------------------------
(* The rows there are at the start. *)

SeedUser(name, id) ==
  [tbl |-> "users", id |-> id, req |-> Nobody, i |-> 0, j |-> 0,
   val |-> FromJson("users", StudentDoc(name))]

SeedCourse(owner, id) ==
  [tbl |-> "courses", id |-> id, req |-> Nobody, i |-> 0, j |-> 0,
   val |-> FromJson("courses", CourseDoc(owner, Array(<<>>)))]

SeedModule(course, id) ==
  [tbl |-> "modules", id |-> id, req |-> Nobody, i |-> 0, j |-> 0,
   val |-> FromJson("modules", ModuleDoc(course))]

\* One user, who may own courses; the keys that come next differ between the
\* tables, so that a key of one cannot pass for a key of another.
OneUser == {SeedUser(bob, 1)}
AfterOneUser == [users |-> 2, courses |-> 3, modules |-> 1]

-----------------------------------------------------------------------------
(* create: courses with modules, one body without and one with a refusal. *)

CreateOffers ==
  {Post("courses", Array(<<CourseDoc(1, Array(<<ModuleDoc(1),
                                                With(ModuleDoc(1), "title", ann)>>)),
                           CourseDoc(1, ModuleDoc(2))>>)),
   Post("courses", Array(<<With(CourseDoc(1, Array(<<ModuleDoc(1)>>)), "title", cut),
                           CourseDoc(7, Array(<<>>))>>))}

-----------------------------------------------------------------------------
(* users: the same users from several clients, and few keys left. *)

UsersOffers ==
  {Post("users", Array(<<StudentDoc(ann), StudentDoc(text)>>)),
   Post("users", StudentDoc(text))}

-----------------------------------------------------------------------------
(* reads: every query, next to what changes its answer. *)

ReadsSeeds == {SeedUser(bob, 1), SeedCourse(1, 1)}
AfterReadsSeeds == [users |-> 2, courses |-> 2, modules |-> 1]

ReadsOffers ==
  {Post("users", StudentDoc(ann)), Post("course", ModuleDoc(1)),
   Get("users", NULL), Get("users_search", ann), Get("user", 2),
   Get("user_exists", 2), Get("courses", NULL), Get("course", 1)}

-----------------------------------------------------------------------------
(***************************************************************************)
(* bodies: every route and every way in which a body can be unsound, with  *)
(* one key left for courses.                                               *)
(***************************************************************************)

AfterBodiesSeeds == [users |-> 2, courses |-> MaxInt, modules |-> 1]

BodiesOffers ==
  {Post("users", b) :
     b \in {Array(<<>>), Scalar, Garbage, TeacherDoc(ann),
            With(StudentDoc(ann), "id", BAD), With(StudentDoc(ann), "id", 5),
            With(StudentDoc(ann), "email", NULL),
            With(StudentDoc(ann), "email", tooLong),
            With(TeacherDoc(ann), "lastname", BAD),
            With(StudentDoc(ann), "role", text),
            With(TeacherDoc(ann), "student_id", text),
            Array(<<StudentDoc(ann), Without(StudentDoc(text), "role")>>),
            Array(<<StudentDoc(ann), TeacherDoc(text)>>)}}
  \cup
  {Post("courses", b) :
     b \in {CourseDoc(1, Array(<<>>)), CourseDoc(17, ModuleDoc(1)),
            CourseDoc(BAD, Array(<<>>)), CourseDoc(1, Scalar),
            Without(CourseDoc(1, Scalar), "owner_id"),
            Without(CourseDoc(1, Scalar), "modules"),
            CourseDoc(1, Array(<<Without(ModuleDoc(1), "title")>>)),
            CourseDoc(1, Without(ModuleDoc(1), "course_id"))}}
  \cup
  {Post("course", b) :
     b \in {ModuleDoc(1), ModuleDoc(NULL),
            With(ModuleDoc(1), "title", BAD)}}
  \cup
  {[path |-> path, method |-> method, arg |-> 1, body |-> NULL] :
     path \in {"user", "user_exists"}, method \in {"GET", "PUT"}}
  \cup
  {Post("test", NULL), Post("users_search", NULL), Get("test", NULL),
   Get("user", 2)}

-----------------------------------------------------------------------------
(* ends: each way in which a handler can come to an end. *)

EndsOffers ==
  {Post("courses", Array(<<CourseDoc(1, ModuleDoc(1)),
                           CourseDoc(1, Array(<<>>))>>)),
   Post("courses", CourseDoc(7, ModuleDoc(1))),
   Post("users", TeacherDoc(ann)), Post("users", Without(TeacherDoc(ann), "role")),
   Post("users", Garbage), Get("user", 2)}

-----------------------------------------------------------------------------
(* The requests of the runs that refute a statement of the documentation. *)

NoSeeds == {}
FirstKeys == [T \in Tables |-> 1]

ListUsers == {Get("users", NULL)}
ReadCourse == {Get("course", 1)}
CourseWithModule == {SeedUser(bob, 1), SeedCourse(1, 1), SeedModule(1, 1)}
AfterCourseWithModule == [T \in Tables |-> 2]
ModifyUser ==
  {[path |-> "user", method |-> "PUT", arg |-> 1, body |-> StudentDoc(bob)]}
CreateDocumentedUser ==
  {Post("users", Object([username |-> ann, email |-> ann, role |-> teacher]))}
CreateSample == {Post("users", Array(<<TeacherDoc(ann), StudentDoc(text)>>))}
=============================================================================
